---- MODULE Spec2Model ----
(***************************************************************************)
(* A model of the daemon package: tracked listeners (listen.go), the flag  *)
(* replicator, Fork, Shutdown, Restart and Run (the daemon source with the *)
(* stopOnce token), and the level-filtered logger (log.go).                *)
(***************************************************************************)
EXTENDS Integers, Sequences, FiniteSets, TLC

\* ------------------------------------------------------------------ bounds
NumListeners == 2      \* listener flags registered by the application
MaxConns     == 2      \* connections ever accepted in one run
MaxBacklog   == 1      \* connections waiting in a socket's accept queue
MaxTasks     == 2      \* Shutdown/Restart calls ever started in one run
MaxSignals   == 2      \* signals ever delivered in one run
MaxAppCalls  == 1      \* Shutdown/Restart calls made by application goroutines
MaxCopies    == 2      \* calls of copyFlags whose results are compared

\* ------------------------------------------------------- program constants
Error   == 0
Warning == 1
Info    == 2
Verbose == 3
Fatal   == -1
StackDumpLevel == -5   \* V(-5) in Run
IncomingCap == 10      \* make(chan os.Signal, 10)
FirstExtraFd == 3      \* fd := 3 + len(cmd.ExtraFiles)

Listeners == 1..NumListeners
ConnIds   == 1..MaxConns
TaskIds   == 1..MaxTasks
Signals   == {"SIGINT", "SIGTERM", "SIGHUP", "SIGUSR1"}
\* The package default, and a level below Fatal: LogLevel is an exported
\* variable and LogLevelFlag accepts any integer.
LogLevels == {-2, Info}

VARIABLES
    registry,   \* the flag set, in the order flag.VisitAll walks it
    lf,         \* listenFlag structs, by listener flag index
    forkF,      \* the forkFlag struct [fork, pidfile]
    LogLevel,   \* var LogLevel
    stopOnce,   \* number of tokens buffered in the stopOnce channel
    incoming,   \* Run's signal channel
    sent,       \* signals delivered so far
    mainPc,     \* position of the main goroutine
    runSig,     \* the signal Run is handling
    runAbort,   \* Run's select took its default branch for runSig
    tasks,      \* Shutdown/Restart calls, by task id
    exitCode,   \* -1 while the process runs, else its exit code
    exitAt,     \* the function whose os.Exit ended the process
    fatals,     \* messages directed to the Fatal logger
    dumps,      \* stack dumps written by Run
    dumpsAbort, \* stack dumps written by Run after its select took default
    children,   \* commands spawned, in order
    pidfile,    \* what Fork did about the pidfile
    wg,         \* WaitListener.wg counter, by listener
    stop,       \* WaitListener.stop is closed, by listener
    lopen,      \* the underlying net.Listener is open in this process
    backlog,    \* connections queued on the listening socket
    acc,        \* goroutines calling Accept
    conns,      \* waitConn wrappers returned by Accept
    waitPc,     \* goroutines calling Wait directly, by listener
    out,        \* results of the copyFlags calls made so far, in order
    kid,        \* the process started from the first spawned command
    setRes,     \* the last call of listenFlag.Set and its result
    closes      \* calls of the underlying listener's Close, by listener

flagVars == <<registry, lf, forkF>>
lifeVars == <<stopOnce, incoming, sent, mainPc, runSig, runAbort, tasks,
              fatals, dumps, dumpsAbort, children, pidfile>>
exitVars == <<exitCode, exitAt>>
lisVars  == <<wg, stop, lopen, closes, backlog, acc, conns, waitPc>>
repVars  == <<out, kid, setRes>>
vars == <<flagVars, LogLevel, lifeVars, exitVars, lisVars, repVars>>

Running == exitCode = -1

\* ------------------------------------------------------------------ log.go
\* Logger.Printf: the message is dropped when l > LogLevel; only a message
\* that is not dropped reaches the os.Exit(1) of the Fatal logger.
PrintfWrites(l) == ~(l > LogLevel)

PrintfExits(l) == PrintfWrites(l) /\ l = Fatal

\* --------------------------------------------------------------- listen.go
\* No call of listenFlag.Set yet; no process started from a spawned command.
NoSet == [i |-> 0, s |-> "", err |-> "none"]
NoKid == [pc |-> "none", lf |-> <<>>, fork |-> FALSE, files |-> <<>>,
          pidfile |-> "none", spawned |-> 0, err |-> "none"]

NoCall == [pc |-> "idle", l |-> 0, began |-> FALSE, ret |-> "none"]
NoConn == [l |-> 0, kind |-> "none", once |-> FALSE, err |-> "none"]

Bound(l) == lf[l].listener = l

FreeConns == {c \in ConnIds : conns[c].l = 0}
NewConn == CHOOSE c \in FreeConns : \A d \in FreeConns : c <= d

\* Accept, line 65: w.wg.Add(1), before the stop flag is looked at.
AcceptAdd(a, l) ==
    /\ Running /\ Bound(l)
    /\ acc[a].pc = "idle"
    /\ wg' = [wg EXCEPT ![l] = @ + 1]
    /\ acc' = [acc EXCEPT ![a] = [pc |-> "added", l |-> l, began |-> stop[l],
                                  ret |-> "none"]]
    /\ UNCHANGED <<repVars, flagVars, LogLevel, lifeVars, exitVars, stop, lopen, closes,
                   backlog, conns, waitPc>>

\* Fault variant of AcceptSelect: the stop channel is not looked at.
AcceptSelectNoStop(a) ==
    /\ Running
    /\ acc[a].pc = "added"
    /\ acc' = [acc EXCEPT ![a].pc = "blocked"]
    /\ UNCHANGED <<repVars, flagVars, LogLevel, lifeVars, exitVars, wg, stop, lopen, closes,
                   backlog, conns, waitPc>>

\* Accept, lines 73-77: the non-blocking select on w.stop; on a closed stop
\* channel Accept returns ErrStopped and the deferred function undoes the Add.
AcceptSelect(a) ==
    /\ Running
    /\ acc[a].pc = "added"
    /\ IF stop[acc[a].l]
       THEN /\ acc' = [acc EXCEPT ![a].pc = "idle", ![a].ret = "ErrStopped"]
            /\ wg' = [wg EXCEPT ![acc[a].l] = @ - 1]
       ELSE /\ acc' = [acc EXCEPT ![a].pc = "blocked"]
            /\ wg' = wg
    /\ UNCHANGED <<repVars, flagVars, LogLevel, lifeVars, exitVars, stop, lopen, closes,
                   backlog, conns, waitPc>>

\* Fault variant of AcceptUnderConn: the stop flag is looked at again after
\* the underlying accept, and the connection is dropped when it is set.
AcceptUnderConnRecheck(a) ==
    /\ Running
    /\ acc[a].pc = "blocked"
    /\ lopen[acc[a].l]
    /\ backlog[acc[a].l] # <<>>
    /\ FreeConns # {}
    /\ backlog' = [backlog EXCEPT ![acc[a].l] = Tail(@)]
    /\ IF stop[acc[a].l]
       THEN /\ acc' = [acc EXCEPT ![a].pc = "idle", ![a].ret = "ErrStopped"]
            /\ wg' = [wg EXCEPT ![acc[a].l] = @ - 1]
            /\ conns' = conns
       ELSE /\ acc' = [acc EXCEPT ![a].pc = "idle", ![a].ret = "conn"]
            /\ conns' = [conns EXCEPT ![NewConn] =
                            [NoConn EXCEPT !.l = acc[a].l,
                                           !.kind = Head(backlog[acc[a].l])]]
            /\ wg' = wg
    /\ UNCHANGED <<repVars, flagVars, LogLevel, lifeVars, exitVars, stop, lopen, closes,
                   waitPc>>

\* Accept, lines 79-93: the underlying Accept returns a queued connection,
\* which is wrapped and returned; the stop flag is not looked at again.
AcceptUnderConn(a) ==
    /\ Running
    /\ acc[a].pc = "blocked"
    /\ lopen[acc[a].l]
    /\ backlog[acc[a].l] # <<>>
    /\ FreeConns # {}
    /\ backlog' = [backlog EXCEPT ![acc[a].l] = Tail(@)]
    /\ acc' = [acc EXCEPT ![a].pc = "idle", ![a].ret = "conn"]
    /\ conns' = [conns EXCEPT ![NewConn] =
                    [NoConn EXCEPT !.l = acc[a].l,
                                   !.kind = Head(backlog[acc[a].l])]]
    /\ UNCHANGED <<repVars, flagVars, LogLevel, lifeVars, exitVars, wg, stop, lopen, closes,
                   waitPc>>

\* Accept, lines 80-83: the underlying listener was closed under the call;
\* "use of closed network connection" is turned into ErrStopped.
AcceptUnderClosed(a) ==
    /\ Running
    /\ acc[a].pc = "blocked"
    /\ ~lopen[acc[a].l]
    /\ acc' = [acc EXCEPT ![a].pc = "idle", ![a].ret = "ErrStopped"]
    /\ wg' = [wg EXCEPT ![acc[a].l] = @ - 1]
    /\ UNCHANGED <<repVars, flagVars, LogLevel, lifeVars, exitVars, stop, lopen, closes,
                   backlog, conns, waitPc>>

\* Fault variant of AcceptUnderErr: the error is returned and the deferred
\* function does not take the increment back.
AcceptUnderErrKeep(a) ==
    /\ Running
    /\ acc[a].pc = "blocked"
    /\ lopen[acc[a].l]
    /\ acc' = [acc EXCEPT ![a].pc = "idle", ![a].ret = "err"]
    /\ UNCHANGED <<repVars, flagVars, LogLevel, lifeVars, exitVars, wg, stop, lopen, closes,
                   backlog, conns, waitPc>>

\* Accept, line 84: any other error of the underlying Accept is returned.
AcceptUnderErr(a) ==
    /\ Running
    /\ acc[a].pc = "blocked"
    /\ lopen[acc[a].l]
    /\ acc' = [acc EXCEPT ![a].pc = "idle", ![a].ret = "err"]
    /\ wg' = [wg EXCEPT ![acc[a].l] = @ - 1]
    /\ UNCHANGED <<repVars, flagVars, LogLevel, lifeVars, exitVars, stop, lopen, closes,
                   backlog, conns, waitPc>>

\* Fault variant of ConnClose: no closeOnce, every call runs the body.
ConnCloseNoOnce(c, uerr) ==
    /\ Running
    /\ conns[c].l # 0
    /\ conns' = [conns EXCEPT ![c].once = TRUE, ![c].err = uerr]
    /\ wg' = [wg EXCEPT ![conns[c].l] = @ - 1]
    /\ UNCHANGED <<repVars, flagVars, LogLevel, lifeVars, exitVars, stop, lopen, closes,
                   backlog, acc, waitPc>>

\* waitConn.Close: the once-guarded body closes the connection (the result
\* uerr of the underlying Close is returned) and calls Done; a later call
\* returns the "double close" error and leaves the counter alone.
ConnClose(c, uerr) ==
    /\ Running
    /\ conns[c].l # 0
    /\ IF conns[c].once
       THEN /\ uerr = "nil"
            /\ conns' = [conns EXCEPT ![c].err = "double close"]
            /\ wg' = wg
       ELSE /\ conns' = [conns EXCEPT ![c].once = TRUE, ![c].err = uerr]
            /\ wg' = [wg EXCEPT ![conns[c].l] = @ - 1]
    /\ UNCHANGED <<repVars, flagVars, LogLevel, lifeVars, exitVars, stop, lopen, closes,
                   backlog, acc, waitPc>>

\* Connections queued on the sockets and not yet accepted.
Queued == {q \in Listeners \X (1..MaxBacklog) : q[2] <= Len(backlog[q[1]])}

\* A dial of listener l's address can be queued (within the bounds).
CanDial(l) ==
    /\ Len(backlog[l]) < MaxBacklog
    /\ Cardinality(Queued) < Cardinality(FreeConns)

\* A remote client connects to the listening socket.
ClientConnect(l) ==
    /\ Running /\ Bound(l)
    /\ lopen[l]
    /\ CanDial(l)
    /\ backlog' = [backlog EXCEPT ![l] = Append(@, "client")]
    /\ UNCHANGED <<repVars, flagVars, LogLevel, lifeVars, exitVars, wg, stop, lopen, closes,
                   acc, conns, waitPc>>

\* close(w.stop): closing a closed channel panics (exit code 2).
CloseStop(l) == [stop EXCEPT ![l] = TRUE]

\* WaitListener.Stop: close(w.stop); the descriptor stays open.
Stop(l) ==
    /\ IF stop[l]
       THEN exitCode' = 2 /\ exitAt' = "panic" /\ stop' = stop
       ELSE stop' = CloseStop(l) /\ UNCHANGED exitVars
    /\ UNCHANGED <<lopen, closes, backlog>>

\* Fault variant of Close: a closed stop channel is left alone and the
\* underlying listener is closed again.
CloseAgain(l) ==
    /\ stop' = CloseStop(l)
    /\ lopen' = [lopen EXCEPT ![l] = FALSE]
    /\ closes' = [closes EXCEPT ![l] = @ + 1]
    /\ backlog' = [backlog EXCEPT ![l] = <<>>]
    /\ UNCHANGED exitVars

\* WaitListener.Close: close(w.stop), then w.Listener.Close().
Close(l) ==
    IF stop[l]
    THEN exitCode' = 2 /\ exitAt' = "panic" /\ UNCHANGED <<stop, lopen, closes, backlog>>
    ELSE /\ stop' = CloseStop(l)
         /\ lopen' = [lopen EXCEPT ![l] = FALSE]
         /\ closes' = [closes EXCEPT ![l] = @ + 1]
         /\ backlog' = [backlog EXCEPT ![l] = <<>>]
         /\ UNCHANGED exitVars

\* The application calls Stop or Close on a listener it holds.
StopCall(l) ==
    /\ Running /\ Bound(l)
    /\ Stop(l)
    /\ UNCHANGED <<repVars, flagVars, LogLevel, lifeVars, wg, acc, conns, waitPc>>

CloseCall(l) ==
    /\ Running /\ Bound(l)
    /\ Close(l)
    /\ UNCHANGED <<repVars, flagVars, LogLevel, lifeVars, wg, acc, conns, waitPc>>

\* WaitListener.Wait: wg.Wait() returns when the counter is zero.
WaitCanReturn(l) == wg[l] = 0

WaitCall(l) ==
    /\ Running /\ Bound(l)
    /\ waitPc[l] # "waiting"
    /\ waitPc' = [waitPc EXCEPT ![l] = "waiting"]
    /\ UNCHANGED <<repVars, flagVars, LogLevel, lifeVars, exitVars, wg, stop, lopen, closes,
                   backlog, acc, conns>>

WaitReturn(l) ==
    /\ Running
    /\ waitPc[l] = "waiting"
    /\ WaitCanReturn(l)
    /\ waitPc' = [waitPc EXCEPT ![l] = "returned"]
    /\ UNCHANGED <<repVars, flagVars, LogLevel, lifeVars, exitVars, wg, stop, lopen, closes,
                   backlog, acc, conns>>

\* ------------------------------------------------------------ flag values
\* listenFlag.String: ":port" when the address has no IP, else "ip:port".
\* It formats laddr whatever the mode is.
ListenString(f) ==
    IF f.ip = "" THEN ":" \o ToString(f.port)
    ELSE f.ip \o ":" \o ToString(f.port)

\* f.Value.String() of a registered flag, by the dynamic type of f.Value:
\* flag.BoolVar(&f.fork, ...) registers a boolValue over forkF.fork and
\* flag.StringVar(&f.pidfile, ...) a stringValue over forkF.pidfile.
FlagString(f, lfs, ff) ==
    CASE f.type = "listenFlag"  -> ListenString(lfs[f.idx])
      [] f.type = "boolValue"   -> IF ff.fork THEN "true" ELSE "false"
      [] f.type = "stringValue" -> ff.pidfile
      [] f.type = "forkFlag"    -> IF ff.fork THEN "true" ELSE "false"
      [] OTHER                  -> f.text

\* ForkPIDFlags: the two flags it registers (pidfile first, then fork).
ForkPIDFlags(forkFlagName, pidFlagName) ==
    << [name |-> pidFlagName,  type |-> "stringValue", idx |-> 0, text |-> ""],
       [name |-> forkFlagName, type |-> "boolValue",   idx |-> 0, text |-> ""] >>

\* ListenFlag: flag.Var(f, name, ...) registers the *listenFlag itself.
ListenFlag(name, i) ==
    [name |-> name, type |-> "listenFlag", idx |-> i, text |-> ""]

Arg0 == "echo"
DefaultPort == 12112

\* ListenFlag(name, "tcp", ":<port>", ...): a flag in mode "tcp" with the
\* resolved default address, and no listener yet.
DefaultListenFlag(i) ==
    [mode |-> "tcp", fd |-> 0, ip |-> "", port |-> DefaultPort + i,
     listener |-> 0]

\* Fault variant of copyFlagsFrom: the descriptor number counts the listener
\* flags walked so far, bound or not.
RECURSIVE copyFlagsFromByIndex(_, _, _, _, _)
copyFlagsFromByIndex(k, reg, lfs, ff, r) ==
    IF k > Len(reg) THEN r
    ELSE LET f == reg[k] IN
         copyFlagsFromByIndex(k + 1, reg, lfs, ff,
            IF f.type = "listenFlag" /\ lfs[f.idx].listener # 0
            THEN [args  |-> Append(r.args, "--" \o f.name \o "=&"
                               \o ToString(FirstExtraFd + f.idx - 1)),
                  extra |-> Append(r.extra, lfs[f.idx].listener),
                  ports |-> Append(r.ports, lfs[f.idx].listener)]
            ELSE [r EXCEPT !.args = Append(@, "--" \o f.name \o "="
                                              \o FlagString(f, lfs, ff))])

\* Fault variant of copyFlagsFrom: the descriptor number is taken after the
\* file is appended.
RECURSIVE copyFlagsFromLate(_, _, _, _, _)
copyFlagsFromLate(k, reg, lfs, ff, r) ==
    IF k > Len(reg) THEN r
    ELSE LET f == reg[k] IN
         copyFlagsFromLate(k + 1, reg, lfs, ff,
            IF f.type = "listenFlag" /\ lfs[f.idx].listener # 0
            THEN [args  |-> Append(r.args, "--" \o f.name \o "=&"
                               \o ToString(FirstExtraFd + Len(r.extra) + 1)),
                  extra |-> Append(r.extra, lfs[f.idx].listener),
                  ports |-> Append(r.ports, lfs[f.idx].listener)]
            ELSE [r EXCEPT !.args = Append(@, "--" \o f.name \o "="
                                              \o FlagString(f, lfs, ff))])

\* copyFlags: the type switch of the flag.VisitAll callback, flag by flag.
RECURSIVE copyFlagsFrom(_, _, _, _, _)
copyFlagsFrom(k, reg, lfs, ff, r) ==
    IF k > Len(reg) THEN r
    ELSE LET f == reg[k] IN
         copyFlagsFrom(k + 1, reg, lfs, ff,
            IF f.type = "listenFlag" /\ lfs[f.idx].listener # 0
            THEN [args  |-> Append(r.args, "--" \o f.name \o "=&"
                               \o ToString(FirstExtraFd + Len(r.extra))),
                  extra |-> Append(r.extra, lfs[f.idx].listener),
                  ports |-> Append(r.ports, lfs[f.idx].listener)]
            ELSE IF f.type = "forkFlag"
            THEN r
            ELSE [r EXCEPT !.args = Append(@, "--" \o f.name \o "="
                                              \o FlagString(f, lfs, ff))])

copyFlags(reg, lfs, ff) ==
    copyFlagsFrom(1, reg, lfs, ff,
                  [args |-> <<Arg0>>, extra |-> <<>>, ports |-> <<>>])

NoCmd == [args |-> <<>>, extra |-> <<>>]

\* ------------------------------------------------------- listenFlag.Set
\* Texts are told apart by comparison with the texts built from these sets.
\* strconv.Atoi: an optional sign and decimal digits.
AtoiRange == (0 - 1)..(FirstExtraFd + NumListeners)
FdTexts == {ToString(n) : n \in AtoiRange} \cup {"+3", "x", "3x", ""}
Atoi(t) ==
    IF \E n \in AtoiRange : ToString(n) = t
    THEN [ok |-> TRUE, n |-> CHOOSE n \in AtoiRange : ToString(n) = t]
    ELSE IF \E n \in AtoiRange : n >= 0 /\ "+" \o ToString(n) = t
    THEN [ok |-> TRUE,
          n |-> CHOOSE n \in AtoiRange : n >= 0 /\ "+" \o ToString(n) = t]
    ELSE [ok |-> FALSE, n |-> 0]

\* net.ResolveTCPAddr("tcp", s): a literal IP (or nothing) and a port.
Hosts == {"", "127.0.0.1"}
Ports == {DefaultPort + i : i \in Listeners} \cup {8080}
AddrTexts == {h \o ":" \o ToString(q) : h \in Hosts, q \in Ports}
BadAddrTexts == {"12113", ":99999", "no.such.host.invalid:80"}
ResolveTCPAddr(s) ==
    IF \E h \in Hosts, q \in Ports : s = h \o ":" \o ToString(q)
    THEN LET a == CHOOSE a \in Hosts \X Ports : s = a[1] \o ":" \o ToString(a[2])
         IN [ok |-> TRUE, ip |-> a[1], port |-> a[2]]
    ELSE [ok |-> FALSE, ip |-> "", port |-> 0]

\* The arguments Set is called with.
SetInputs == {""} \cup {"&" \o t : t \in FdTexts} \cup AddrTexts \cup BadAddrTexts

\* s[0] == '&', and s[1:] for such an s.
IsFdText(s) == \E t \in FdTexts : s = "&" \o t
FdTextOf(s) == CHOOSE t \in FdTexts : s = "&" \o t

\* listenFlag.Set on the flag f: the flag after the call and the error.
Set(f, s) ==
    IF s = ""
    THEN [f |-> f, err |-> "requires an argument"]
    ELSE IF IsFdText(s)
    THEN LET r == Atoi(FdTextOf(s)) IN
         IF ~r.ok THEN [f |-> f, err |-> "failed to parse &fd"]
         ELSE [f |-> [f EXCEPT !.mode = "fd", !.fd = r.n], err |-> "nil"]
    ELSE LET a == ResolveTCPAddr(s) IN
         IF ~a.ok THEN [f |-> f, err |-> "failed to resolve"]
         ELSE [f |-> [f EXCEPT !.mode = "tcp", !.ip = a.ip, !.port = a.port],
               err |-> "nil"]
CmdOf(r) == [args |-> r.args, extra |-> r.extra]

\* ------------------------------------------------------- the stop token
NoTask == [kind |-> "none", by |-> "none", pc |-> "none", i |-> 0,
           ports |-> <<>>, cmd |-> NoCmd, j |-> 0, done |-> FALSE,
           timer |-> "off", sel |-> "none"]

FreeTasks == {t \in TaskIds : tasks[t].kind = "none"}
NewTask == CHOOSE t \in FreeTasks : \A u \in FreeTasks : t <= u

\* Tasks whose <-stopOnce has returned.
PastClaim == {t \in TaskIds : tasks[t].pc \notin {"none", "claim"}}
\* Fork's <-stopOnce has returned (main is at "exit" only after Fork's spawn).
ForkPastClaim == mainPc \in {"ForkSpawn", "exit"}

\* An application goroutine calls Shutdown or Restart.
AppCall(kind) ==
    /\ Running
    /\ FreeTasks # {}
    /\ Cardinality({t \in TaskIds : tasks[t].by = "app"}) < MaxAppCalls
    /\ tasks' = [tasks EXCEPT ![NewTask] =
                    [NoTask EXCEPT !.kind = kind, !.by = "app", !.pc = "claim"]]
    /\ UNCHANGED <<repVars, flagVars, LogLevel, stopOnce, incoming, sent, mainPc,
                   runSig, runAbort, fatals, dumps, dumpsAbort, children,
                   pidfile, exitVars, lisVars>>

\* Fault variant of TaskClaim: the call goes on without receiving a token.
TaskClaimPeek(t) ==
    /\ Running
    /\ tasks[t].pc = "claim"
    /\ tasks' = [tasks EXCEPT ![t].pc = "copyFlags"]
    /\ UNCHANGED <<repVars, flagVars, LogLevel, stopOnce, incoming, sent, mainPc,
                   runSig, runAbort, fatals, dumps, dumpsAbort, children,
                   pidfile, exitVars, lisVars>>

\* Restart/Shutdown, first line: <-stopOnce blocks until a token is there.
TaskClaim(t) ==
    /\ Running
    /\ tasks[t].pc = "claim"
    /\ stopOnce > 0
    /\ stopOnce' = stopOnce - 1
    /\ tasks' = [tasks EXCEPT ![t].pc = "copyFlags"]
    /\ UNCHANGED <<repVars, flagVars, LogLevel, incoming, sent, mainPc, runSig,
                   runAbort, fatals, dumps, dumpsAbort, children, pidfile,
                   exitVars, lisVars>>

\* cmd, ports := copyFlags()
TaskCopyFlags(t) ==
    /\ Running
    /\ tasks[t].pc = "copyFlags"
    /\ LET r == copyFlags(registry, lf, forkF) IN
       tasks' = [tasks EXCEPT ![t].ports = r.ports, ![t].cmd = CmdOf(r),
                    ![t].i = 1,
                    ![t].pc = IF r.ports # <<>> THEN "stop"
                              ELSE IF tasks[t].kind = "Restart" THEN "spawn"
                              ELSE "drain"]
    /\ UNCHANGED <<repVars, flagVars, LogLevel, stopOnce, incoming, sent, mainPc,
                   runSig, runAbort, fatals, dumps, dumpsAbort, children,
                   pidfile, exitVars, lisVars>>

\* ---------------------------------------------------------------- Restart
\* Fault variant of RestartStop: the loop goes on without calling Stop.
RestartStopSkip(t) ==
    /\ Running
    /\ tasks[t].kind = "Restart" /\ tasks[t].pc = "stop"
    /\ tasks' = [tasks EXCEPT ![t].pc = "noop"]
    /\ UNCHANGED <<repVars, flagVars, LogLevel, stopOnce, incoming, sent, mainPc,
                   runSig, runAbort, fatals, dumps, dumpsAbort, children,
                   pidfile, exitVars, lisVars>>

\* Restart loop, w.Stop() for the i-th collected listener.
RestartStop(t) ==
    /\ Running
    /\ tasks[t].kind = "Restart" /\ tasks[t].pc = "stop"
    /\ Stop(tasks[t].ports[tasks[t].i])
    /\ tasks' = [tasks EXCEPT ![t].pc = "noop"]
    /\ UNCHANGED <<repVars, flagVars, LogLevel, stopOnce, incoming, sent, mainPc,
                   runSig, runAbort, fatals, dumps, dumpsAbort, children,
                   pidfile, wg, acc, conns, waitPc>>

\* noop: dial the listener's own address; the first dial that succeeds
\* queues one connection on the socket, and a failure is only logged.
noop(l, ok) ==
    backlog' = IF ok THEN [backlog EXCEPT ![l] = Append(@, "noop")]
               ELSE backlog

\* Fault variant of RestartNoop: after the last listener the drain is
\* started without the call of spawn.
RestartNoopDrain(t, ok) ==
    /\ Running
    /\ tasks[t].kind = "Restart" /\ tasks[t].pc = "noop"
    /\ ok => CanDial(tasks[t].ports[tasks[t].i])
    /\ noop(tasks[t].ports[tasks[t].i], ok)
    /\ tasks' = IF tasks[t].i < Len(tasks[t].ports)
                THEN [tasks EXCEPT ![t].i = @ + 1, ![t].pc = "stop"]
                ELSE [tasks EXCEPT ![t].i = @ + 1, ![t].pc = "select",
                                   ![t].j = 1, ![t].timer = "armed"]
    /\ UNCHANGED <<repVars, flagVars, LogLevel, stopOnce, incoming, sent, mainPc,
                   runSig, runAbort, fatals, dumps, dumpsAbort, children,
                   pidfile, exitVars, wg, stop, lopen, closes, acc, conns, waitPc>>

\* Fault variant of RestartNoop: the noop connection goes to the listener
\* that the loop stops next, when there is one.
RestartNoopAhead(t, ok) ==
    /\ Running
    /\ tasks[t].kind = "Restart" /\ tasks[t].pc = "noop"
    /\ LET n == IF tasks[t].i < Len(tasks[t].ports)
                THEN tasks[t].i + 1 ELSE tasks[t].i
       IN /\ ok => CanDial(tasks[t].ports[n])
          /\ noop(tasks[t].ports[n], ok)
    /\ tasks' = [tasks EXCEPT ![t].i = @ + 1,
                    ![t].pc = IF tasks[t].i < Len(tasks[t].ports)
                              THEN "stop" ELSE "spawn"]
    /\ UNCHANGED <<repVars, flagVars, LogLevel, stopOnce, incoming, sent, mainPc,
                   runSig, runAbort, fatals, dumps, dumpsAbort, children,
                   pidfile, exitVars, wg, stop, lopen, closes, acc, conns, waitPc>>

\* Restart loop, w.noop() for the i-th collected listener.
\* Fault variant of RestartNoop: a noop connection that cannot be made is
\* directed to the Fatal logger instead of the Verbose one.
RestartNoopFatal(t, ok) ==
    /\ Running
    /\ tasks[t].kind = "Restart" /\ tasks[t].pc = "noop"
    /\ ok => CanDial(tasks[t].ports[tasks[t].i])
    /\ noop(tasks[t].ports[tasks[t].i], ok)
    /\ IF ok THEN UNCHANGED <<fatals, exitVars>>
             ELSE /\ fatals' = fatals \cup {"failed to ping"}
                  /\ IF PrintfExits(Fatal)
                     THEN exitCode' = 1 /\ exitAt' = "Fatal"
                     ELSE UNCHANGED exitVars
    /\ tasks' = [tasks EXCEPT ![t].i = @ + 1,
                    ![t].pc = IF tasks[t].i < Len(tasks[t].ports)
                              THEN "stop" ELSE "spawn"]
    /\ UNCHANGED <<repVars, flagVars, LogLevel, stopOnce, incoming, sent, mainPc,
                   runSig, runAbort, dumps, dumpsAbort, children,
                   pidfile, wg, stop, lopen, closes, acc, conns, waitPc>>

RestartNoop(t, ok) ==
    /\ Running
    /\ tasks[t].kind = "Restart" /\ tasks[t].pc = "noop"
    /\ ok => CanDial(tasks[t].ports[tasks[t].i])
    /\ noop(tasks[t].ports[tasks[t].i], ok)
    /\ tasks' = [tasks EXCEPT ![t].i = @ + 1,
                    ![t].pc = IF tasks[t].i < Len(tasks[t].ports)
                              THEN "stop" ELSE "spawn"]
    /\ UNCHANGED <<repVars, flagVars, LogLevel, stopOnce, incoming, sent, mainPc,
                   runSig, runAbort, fatals, dumps, dumpsAbort, children,
                   pidfile, exitVars, wg, stop, lopen, closes, acc, conns, waitPc>>

\* A call of the Fatal logger: the message is recorded; the process exits
\* with code 1 unless Printf dropped the message, and then the caller goes on.
FatalPrintf(msg) ==
    /\ fatals' = fatals \cup {msg}
    /\ IF PrintfExits(Fatal)
       THEN exitCode' = 1 /\ exitAt' = "Fatal"
       ELSE UNCHANGED exitVars

\* spawn(cmd), then the drain goroutine and the timer of the select are
\* started.  cmd.Start() may fail (ok = FALSE), which is Fatal.
RestartSpawn(t, ok) ==
    /\ Running
    /\ tasks[t].kind = "Restart" /\ tasks[t].pc = "spawn"
    /\ IF ok
       THEN /\ children' = Append(children, tasks[t].cmd)
            /\ UNCHANGED <<fatals, exitVars>>
       ELSE /\ children' = children
            /\ FatalPrintf("Exec failed")
    /\ tasks' = [tasks EXCEPT ![t].pc = "select", ![t].j = 1,
                              ![t].timer = "armed"]
    /\ UNCHANGED <<repVars, flagVars, LogLevel, stopOnce, incoming, sent, mainPc,
                   runSig, runAbort, dumps, dumpsAbort, pidfile, lisVars>>

\* --------------------------------------------------------------- Shutdown
\* Shutdown loop, w.Close() for the i-th collected listener; after the last
\* one the drain goroutine and the timer are started.
ShutdownClose(t) ==
    /\ Running
    /\ tasks[t].kind = "Shutdown" /\ tasks[t].pc = "stop"
    /\ Close(tasks[t].ports[tasks[t].i])
    /\ tasks' = [tasks EXCEPT ![t].i = @ + 1,
                    ![t].pc = IF tasks[t].i < Len(tasks[t].ports)
                              THEN "stop" ELSE "drain"]
    /\ UNCHANGED <<repVars, flagVars, LogLevel, stopOnce, incoming, sent, mainPc,
                   runSig, runAbort, fatals, dumps, dumpsAbort, children,
                   pidfile, wg, acc, conns, waitPc>>

ShutdownDrain(t) ==
    /\ Running
    /\ tasks[t].kind = "Shutdown" /\ tasks[t].pc = "drain"
    /\ tasks' = [tasks EXCEPT ![t].pc = "select", ![t].j = 1,
                              ![t].timer = "armed"]
    /\ UNCHANGED <<repVars, flagVars, LogLevel, stopOnce, incoming, sent, mainPc,
                   runSig, runAbort, fatals, dumps, dumpsAbort, children,
                   pidfile, exitVars, lisVars>>

\* Fault variant of DrainWait: Wait() returns whatever the counter is.
DrainWaitSkip(t) ==
    /\ Running
    /\ tasks[t].pc = "select" /\ ~tasks[t].done
    /\ tasks[t].j <= Len(tasks[t].ports)
    /\ tasks' = [tasks EXCEPT ![t].j = @ + 1]
    /\ UNCHANGED <<repVars, flagVars, LogLevel, stopOnce, incoming, sent, mainPc,
                   runSig, runAbort, fatals, dumps, dumpsAbort, children,
                   pidfile, exitVars, lisVars>>

\* ------------------------------------------------- drain, timer and select
\* The drain goroutine: w.Wait() on the j-th collected listener returns.
DrainWait(t) ==
    /\ Running
    /\ tasks[t].pc = "select" /\ ~tasks[t].done
    /\ tasks[t].j <= Len(tasks[t].ports)
    /\ WaitCanReturn(tasks[t].ports[tasks[t].j])
    /\ tasks' = [tasks EXCEPT ![t].j = @ + 1]
    /\ UNCHANGED <<repVars, flagVars, LogLevel, stopOnce, incoming, sent, mainPc,
                   runSig, runAbort, fatals, dumps, dumpsAbort, children,
                   pidfile, exitVars, lisVars>>

\* The drain goroutine returns: defer close(done).
DrainDone(t) ==
    /\ Running
    /\ tasks[t].pc = "select" /\ ~tasks[t].done
    /\ tasks[t].j > Len(tasks[t].ports)
    /\ tasks' = [tasks EXCEPT ![t].done = TRUE]
    /\ UNCHANGED <<repVars, flagVars, LogLevel, stopOnce, incoming, sent, mainPc,
                   runSig, runAbort, fatals, dumps, dumpsAbort, children,
                   pidfile, exitVars, lisVars>>

\* time.After(timeout) delivers.
TimerFire(t) ==
    /\ Running
    /\ tasks[t].pc = "select" /\ tasks[t].timer = "armed"
    /\ tasks' = [tasks EXCEPT ![t].timer = "fired"]
    /\ UNCHANGED <<repVars, flagVars, LogLevel, stopOnce, incoming, sent, mainPc,
                   runSig, runAbort, fatals, dumps, dumpsAbort, children,
                   pidfile, exitVars, lisVars>>

\* select, case <-done: "complete" is logged and os.Exit(0) is called.
SelectDone(t) ==
    /\ Running
    /\ tasks[t].pc = "select" /\ tasks[t].done
    /\ tasks' = [tasks EXCEPT ![t].pc = "exit", ![t].sel = "done"]
    /\ exitCode' = 0 /\ exitAt' = tasks[t].kind
    /\ UNCHANGED <<repVars, flagVars, LogLevel, stopOnce, incoming, sent, mainPc,
                   runSig, runAbort, fatals, dumps, dumpsAbort, children,
                   pidfile, lisVars>>

\* select, case <-time.After(timeout): Fatal.Printf("... timed out"); when
\* that call returns, the function goes on to os.Exit(0).
SelectTimeout(t) ==
    /\ Running
    /\ tasks[t].pc = "select" /\ tasks[t].timer = "fired"
    /\ tasks' = [tasks EXCEPT ![t].pc = "exit", ![t].sel = "timeout"]
    /\ fatals' = fatals \cup {tasks[t].kind \o " timed out"}
    /\ IF PrintfExits(Fatal)
       THEN exitCode' = 1 /\ exitAt' = "Fatal"
       ELSE exitCode' = 0 /\ exitAt' = tasks[t].kind
    /\ UNCHANGED <<repVars, flagVars, LogLevel, stopOnce, incoming, sent, mainPc,
                   runSig, runAbort, dumps, dumpsAbort, children, pidfile,
                   lisVars>>

\* Fault variant of ForkStart: the pidfile is written before the fork flag
\* is looked at, in the parent as well.
ForkStartPidfile(ok) ==
    /\ Running
    /\ mainPc = "Fork"
    /\ pidfile' = IF ok THEN "written" ELSE "failed"
    /\ mainPc' = IF forkF.fork THEN "ForkClaim" ELSE "Listen"
    /\ UNCHANGED <<repVars, flagVars, LogLevel, stopOnce, incoming, sent, runSig,
                   runAbort, tasks, fatals, dumps, dumpsAbort, children,
                   exitVars, lisVars>>

\* ------------------------------------------------------------------- Fork
\* forkFlag.Fork: with the fork flag set it goes on to claim the token;
\* otherwise it writes the pidfile (os.Create may fail: ok = FALSE) and
\* returns to main.
ForkStart(ok) ==
    /\ Running
    /\ mainPc = "Fork"
    /\ IF forkF.fork
       THEN ok /\ mainPc' = "ForkClaim" /\ pidfile' = pidfile
       ELSE /\ mainPc' = "Listen"
            /\ pidfile' = IF ok THEN "written" ELSE "failed"
    /\ UNCHANGED <<repVars, flagVars, LogLevel, stopOnce, incoming, sent, runSig,
                   runAbort, tasks, fatals, dumps, dumpsAbort, children,
                   exitVars, lisVars>>

\* Fault variant of ForkClaim: the token is seen but left in the channel.
ForkClaimPeek ==
    /\ Running
    /\ mainPc = "ForkClaim"
    /\ stopOnce > 0
    /\ mainPc' = "ForkSpawn"
    /\ UNCHANGED <<repVars, flagVars, LogLevel, stopOnce, incoming, sent, runSig,
                   runAbort, tasks, fatals, dumps, dumpsAbort, children,
                   pidfile, exitVars, lisVars>>

\* Fork, <-stopOnce
ForkClaim ==
    /\ Running
    /\ mainPc = "ForkClaim"
    /\ stopOnce > 0
    /\ stopOnce' = stopOnce - 1
    /\ mainPc' = "ForkSpawn"
    /\ UNCHANGED <<repVars, flagVars, LogLevel, incoming, sent, runSig, runAbort,
                   tasks, fatals, dumps, dumpsAbort, children, pidfile,
                   exitVars, lisVars>>

\* Fault variant of ForkSpawn: the fork flag is not cleared.
ForkSpawnKeep(ok) ==
    /\ Running
    /\ mainPc = "ForkSpawn"
    /\ forkF' = forkF
    /\ mainPc' = "exit"
    /\ IF ok
       THEN /\ children' = Append(children, CmdOf(copyFlags(registry, lf, forkF)))
            /\ fatals' = fatals
            /\ exitCode' = 0 /\ exitAt' = "Fork"
       ELSE /\ children' = children
            /\ fatals' = fatals \cup {"Exec failed"}
            /\ IF PrintfExits(Fatal)
               THEN exitCode' = 1 /\ exitAt' = "Fatal"
               ELSE exitCode' = 0 /\ exitAt' = "Fork"
    /\ UNCHANGED <<repVars, registry, lf, LogLevel, stopOnce, incoming, sent, runSig,
                   runAbort, tasks, dumps, dumpsAbort, pidfile, lisVars>>

\* Fork: f.fork = false; cmd, _ := copyFlags(); spawn(cmd); os.Exit(0)
ForkSpawn(ok) ==
    /\ Running
    /\ mainPc = "ForkSpawn"
    /\ forkF' = [forkF EXCEPT !.fork = FALSE]
    /\ mainPc' = "exit"
    /\ IF ok
       THEN /\ children' = Append(children,
                   CmdOf(copyFlags(registry, lf, [forkF EXCEPT !.fork = FALSE])))
            /\ fatals' = fatals
            /\ exitCode' = 0 /\ exitAt' = "Fork"
       ELSE /\ children' = children
            /\ fatals' = fatals \cup {"Exec failed"}
            /\ IF PrintfExits(Fatal)
               THEN exitCode' = 1 /\ exitAt' = "Fatal"
               ELSE exitCode' = 0 /\ exitAt' = "Fork"
    /\ UNCHANGED <<repVars, registry, lf, LogLevel, stopOnce, incoming, sent, runSig,
                   runAbort, tasks, dumps, dumpsAbort, pidfile, lisVars>>

\* ------------------------------------------------------------------- main
\* listenFlag.Listen: a new WaitListener is made and kept in the flag.
Listen(l) ==
    /\ lf' = [lf EXCEPT ![l].listener = l]
    /\ lopen' = [lopen EXCEPT ![l] = TRUE]

MainListen(l) ==
    /\ Running
    /\ mainPc = "Listen"
    /\ lf[l].mode = "tcp"
    /\ lf[l].listener = 0
    /\ \A k \in Listeners : k < l => lf[k].listener # 0
    /\ Listen(l)
    /\ UNCHANGED <<repVars, registry, forkF, LogLevel, lifeVars, exitVars, wg, stop,
                   closes, backlog, acc, conns, waitPc>>

\* main, Listen on a flag in mode "fd": the process was not handed any
\* listening socket, net.FileListener fails and main directs "listen: ..."
\* to the Fatal logger; past a dropped Fatal message the nil listener is
\* used and the process panics.
MainListenFd(l) ==
    /\ Running
    /\ mainPc = "Listen"
    /\ lf[l].mode = "fd"
    /\ lf[l].listener = 0
    /\ \A k \in Listeners : k < l => lf[k].listener # 0
    /\ fatals' = fatals \cup {"listen"}
    /\ IF PrintfExits(Fatal)
       THEN exitCode' = 1 /\ exitAt' = "Fatal"
       ELSE exitCode' = 2 /\ exitAt' = "panic"
    /\ UNCHANGED <<repVars, flagVars, LogLevel, stopOnce, incoming, sent, mainPc,
                   runSig, runAbort, tasks, dumps, dumpsAbort, children,
                   pidfile, lisVars>>

\* ------------------------------------------------------------ flag.Parse
\* flag.Parse calls Set on a listener flag named on the command line.
SetCall(i, s) ==
    /\ Running
    /\ mainPc = "Parse"
    /\ setRes.i < i
    /\ lf' = [lf EXCEPT ![i] = Set(lf[i], s).f]
    /\ setRes' = [i |-> i, s |-> s, err |-> Set(lf[i], s).err]
    /\ UNCHANGED <<registry, forkF, LogLevel, lifeVars, exitVars, lisVars,
                   out, kid>>

\* flag.Parse returns nil, or exits with code 2 on the error of a Set
\* (flag.CommandLine is made with flag.ExitOnError).
ParseDone ==
    /\ Running
    /\ mainPc = "Parse"
    /\ IF setRes.err \in {"none", "nil"}
       THEN mainPc' = "Fork" /\ UNCHANGED exitVars
       ELSE mainPc' = mainPc /\ exitCode' = 2 /\ exitAt' = "flag"
    /\ UNCHANGED <<repVars, flagVars, LogLevel, stopOnce, incoming, sent, runSig,
                   runAbort, tasks, fatals, dumps, dumpsAbort, children,
                   pidfile, lisVars>>

\* ------------------------------------------------- calls of copyFlags
NoCopy == [args |-> <<>>, extra |-> <<>>, ports |-> <<>>]
LastCopy == IF out = <<>> THEN NoCopy ELSE out[Len(out)].res

\* Fault variant of CopyFlagsCall: the command of the previous call is
\* filled further instead of a new one.
CopyFlagsCallReuse ==
    /\ Running
    /\ Len(out) < MaxCopies
    /\ out' = Append(out,
          [res |-> IF out = <<>> THEN copyFlags(registry, lf, forkF)
                   ELSE copyFlagsFrom(1, registry, lf, forkF, LastCopy),
           lf |-> lf, forkF |-> forkF])
    /\ UNCHANGED <<flagVars, LogLevel, lifeVars, exitVars, lisVars, kid, setRes>>

\* copyFlags() is called on the flags as they are; the result is kept with
\* the flag state it was computed from.
CopyFlagsCall ==
    /\ Running
    /\ Len(out) < MaxCopies
    /\ out' = Append(out, [res |-> copyFlags(registry, lf, forkF),
                           lf |-> lf, forkF |-> forkF])
    /\ UNCHANGED <<flagVars, LogLevel, lifeVars, exitVars, lisVars, kid, setRes>>

\* ------------------------------------------- the process started by spawn
\* strconv.ParseBool, as flag.BoolVar's value applies it to the argument.
BoolTexts == {"1", "t", "T", "TRUE", "true", "True",
              "0", "f", "F", "FALSE", "false", "False"}
ParseBool(t) == t \in {"1", "t", "T", "TRUE", "true", "True"}

\* The value given for the flag called name on a command line, if any.
ArgValues == SetInputs \cup BoolTexts
HasArg(args, name) ==
    \E k \in 1..Len(args), v \in ArgValues : args[k] = "--" \o name \o "=" \o v
ArgValue(args, name) ==
    CHOOSE v \in ArgValues :
        \E k \in 1..Len(args) : args[k] = "--" \o name \o "=" \o v

\* The name under which listener flag i is registered.
NameOf(i) ==
    registry[CHOOSE k \in 1..Len(registry) :
                registry[k].type = "listenFlag" /\ registry[k].idx = i].name

\* os/exec: ExtraFiles[k] is descriptor 3+k of the started process. The
\* socket behind descriptor fd of a process started with these files.
FdSocket(files, fd) ==
    IF fd - FirstExtraFd + 1 \in 1..Len(files)
    THEN files[fd - FirstExtraFd + 1] ELSE 0

\* The started process declares the same flags; its flag.Parse calls Set
\* for every listener flag on its command line.
KidSet(cmd, i) ==
    IF HasArg(cmd.args, NameOf(i))
    THEN Set(DefaultListenFlag(i), ArgValue(cmd.args, NameOf(i)))
    ELSE [f |-> DefaultListenFlag(i), err |-> "nil"]

\* spawn: cmd.Start() runs the command; the new process parses its flags.
KidParse ==
    /\ children # <<>>
    /\ kid.pc = "none"
    /\ LET cmd == children[1]
           bad == \E i \in Listeners : KidSet(cmd, i).err # "nil"
       IN kid' = [kid EXCEPT
                    !.pc = IF bad THEN "exit" ELSE "Fork",
                    !.err = IF bad THEN "flag" ELSE "none",
                    !.lf = [i \in Listeners |-> KidSet(cmd, i).f],
                    !.fork = /\ HasArg(cmd.args, "fork")
                             /\ ParseBool(ArgValue(cmd.args, "fork")),
                    !.files = cmd.extra]
    /\ UNCHANGED <<flagVars, LogLevel, lifeVars, exitVars, lisVars, out, setRes>>

\* Fork in the started process.
KidFork(ok) ==
    /\ kid.pc = "Fork"
    /\ IF kid.fork
       THEN ok /\ kid' = [kid EXCEPT !.spawned = @ + 1, !.pc = "exit"]
       ELSE kid' = [kid EXCEPT !.pc = "Listen",
                       !.pidfile = IF ok THEN "written" ELSE "failed"]
    /\ UNCHANGED <<flagVars, LogLevel, lifeVars, exitVars, lisVars, out, setRes>>

\* Listen in the started process: in mode "fd" the listener is made from the
\* file behind the descriptor, and that fails when there is none; in mode
\* "tcp" a socket of its own is bound (ok) or the address is in use.
KidListen(i, ok) ==
    /\ kid.pc = "Listen"
    /\ kid.lf[i].listener = 0
    /\ \A k \in Listeners : k < i => kid.lf[k].listener # 0
    /\ LET sock == IF kid.lf[i].mode = "fd"
                   THEN FdSocket(kid.files, kid.lf[i].fd)
                   ELSE IF ok THEN 0 - i ELSE 0
       IN /\ kid.lf[i].mode = "fd" => ok
          /\ kid' = IF sock = 0
                    THEN [kid EXCEPT !.pc = "exit", !.err = "listen"]
                    ELSE [kid EXCEPT !.lf[i].listener = sock]
    /\ UNCHANGED <<flagVars, LogLevel, lifeVars, exitVars, lisVars, out, setRes>>

\* main calls Run: signal.Notify(incoming, signals...)
MainRun ==
    /\ Running
    /\ mainPc = "Listen"
    /\ mainPc' = "Run"
    /\ UNCHANGED <<repVars, flagVars, LogLevel, stopOnce, incoming, sent, runSig,
                   runAbort, tasks, fatals, dumps, dumpsAbort, children,
                   pidfile, exitVars, lisVars>>

\* The handler goroutine of the echo server: defer conn.Close(), once.
HandlerClose(c) ==
    /\ ~conns[c].once
    /\ ConnClose(c, "nil")

\* The accept loop of the echo server: Accept again until ErrStopped.
LoopAccept(l) ==
    /\ acc[l].ret # "ErrStopped"
    /\ AcceptAdd(l, l)

\* The accept loop on an error other than ErrStopped: the error is logged
\* and the handler goroutine is started all the same, with a nil conn, on
\* which its defer conn.Close() panics (exit code 2).
LoopAcceptErr(l) ==
    /\ Running
    /\ acc[l].pc = "blocked"
    /\ lopen[acc[l].l]
    /\ acc' = [acc EXCEPT ![l].pc = "idle", ![l].ret = "err"]
    /\ wg' = [wg EXCEPT ![acc[l].l] = @ - 1]
    /\ exitCode' = 2 /\ exitAt' = "panic"
    /\ UNCHANGED <<repVars, flagVars, LogLevel, lifeVars, stop, lopen, closes, backlog, conns,
                   waitPc>>

\* -------------------------------------------------------------------- Run
RunPcs == {"Run", "Run:select", "Run:putback", "Run:switch"}

sigAction(sig) ==
    CASE sig \in {"SIGINT", "SIGTERM"} -> "sigShutdown"
      [] sig = "SIGHUP"                -> "sigRestart"
      [] sig = "SIGUSR1"               -> "sigStackDump"
      [] OTHER                         -> "sigUnknown"

\* The runtime delivers a signal: a non-blocking send on incoming.
SendSignal(sig) ==
    /\ Running
    /\ mainPc \in RunPcs
    /\ sent < MaxSignals
    /\ sent' = sent + 1
    /\ incoming' = IF Len(incoming) < IncomingCap
                   THEN Append(incoming, sig) ELSE incoming
    /\ UNCHANGED <<repVars, flagVars, LogLevel, stopOnce, mainPc, runSig, runAbort,
                   tasks, fatals, dumps, dumpsAbort, children, pidfile,
                   exitVars, lisVars>>

\* for sig := range incoming
RunRecv ==
    /\ Running
    /\ mainPc = "Run"
    /\ incoming # <<>>
    /\ runSig' = Head(incoming)
    /\ incoming' = Tail(incoming)
    /\ runAbort' = FALSE
    /\ mainPc' = "Run:select"
    /\ UNCHANGED <<repVars, flagVars, LogLevel, stopOnce, sent, tasks, fatals, dumps,
                   dumpsAbort, children, pidfile, exitVars, lisVars>>

\* Fault variant of RunSelect: a stack-dump signal skips the token check,
\* and the token is not taken out of the channel.
RunSelectDumpFirst ==
    /\ Running
    /\ mainPc = "Run:select"
    /\ IF stopOnce > 0 \/ sigAction(runSig) = "sigStackDump"
       THEN /\ mainPc' = "Run:switch"
            /\ UNCHANGED <<stopOnce, runAbort, fatals, exitVars>>
       ELSE /\ runAbort' = TRUE
            /\ FatalPrintf("Aborted by signal during shutdown")
            /\ mainPc' = "Run:switch"
            /\ stopOnce' = stopOnce
    /\ UNCHANGED <<repVars, flagVars, LogLevel, incoming, sent, runSig, tasks, dumps,
                   dumpsAbort, children, pidfile, lisVars>>

\* select { case <-stopOnce: ... default: Fatal.Printf("Aborted ...") },
\* whatever the signal is.
RunSelect ==
    /\ Running
    /\ mainPc = "Run:select"
    /\ IF stopOnce > 0
       THEN /\ stopOnce' = stopOnce - 1
            /\ mainPc' = "Run:putback"
            /\ UNCHANGED <<runAbort, fatals, exitVars>>
       ELSE /\ runAbort' = TRUE
            /\ FatalPrintf("Aborted by signal during shutdown")
            /\ mainPc' = "Run:switch"
            /\ stopOnce' = stopOnce
    /\ UNCHANGED <<repVars, flagVars, LogLevel, incoming, sent, runSig, tasks, dumps,
                   dumpsAbort, children, pidfile, lisVars>>

\* Fault variant of RunPutBack: the token is not sent back.
RunPutBackDrop ==
    /\ Running
    /\ mainPc = "Run:putback"
    /\ mainPc' = "Run:switch"
    /\ UNCHANGED <<repVars, flagVars, LogLevel, stopOnce, incoming, sent, runSig,
                   runAbort, tasks, fatals, dumps, dumpsAbort, children, pidfile,
                   exitVars, lisVars>>

\* case <-stopOnce: stopOnce <- true
RunPutBack ==
    /\ Running
    /\ mainPc = "Run:putback"
    /\ stopOnce < 1
    /\ stopOnce' = stopOnce + 1
    /\ mainPc' = "Run:switch"
    /\ UNCHANGED <<repVars, flagVars, LogLevel, incoming, sent, runSig, runAbort,
                   tasks, fatals, dumps, dumpsAbort, children, pidfile,
                   exitVars, lisVars>>

Dispatched(kind) ==
    [tasks EXCEPT ![NewTask] =
        [NoTask EXCEPT !.kind = kind, !.by = "Run", !.pc = "claim"]]

\* switch sigAction(sig): go Shutdown(LameDuck), go Restart(LameDuck),
\* V(-5).Printf("Stack dump ...") or Warning.Printf("Unknown signal ...").
RunSwitch ==
    /\ Running
    /\ mainPc = "Run:switch"
    /\ sigAction(runSig) \in {"sigShutdown", "sigRestart"} => FreeTasks # {}
    /\ tasks' = CASE sigAction(runSig) = "sigShutdown" -> Dispatched("Shutdown")
                  [] sigAction(runSig) = "sigRestart"  -> Dispatched("Restart")
                  [] OTHER -> tasks
    /\ dumps' = IF sigAction(runSig) = "sigStackDump"
                   /\ PrintfWrites(StackDumpLevel)
                THEN dumps + 1 ELSE dumps
    /\ dumpsAbort' = IF sigAction(runSig) = "sigStackDump" /\ runAbort
                        /\ PrintfWrites(StackDumpLevel)
                     THEN dumpsAbort + 1 ELSE dumpsAbort
    /\ mainPc' = "Run"
    /\ UNCHANGED <<repVars, flagVars, LogLevel, stopOnce, incoming, sent, runSig,
                   runAbort, fatals, children, pidfile, exitVars, lisVars>>

\* ------------------------------------------------------------------- Init

\* The flags of the echo server, as flag.VisitAll walks them (by name).
EchoRegistry ==
    << [name |-> "delay", type |-> "durationValue", idx |-> 0, text |-> "1m0s"] >>
    \o [i \in Listeners |-> ListenFlag("echo" \o ToString(i), i)]
    \o << ForkPIDFlags("fork", "pidfile")[2], ForkPIDFlags("fork", "pidfile")[1] >>

InitCommon ==
    /\ registry = EchoRegistry
    /\ stopOnce = 1
    /\ incoming = <<>> /\ sent = 0
    /\ runSig = "none" /\ runAbort = FALSE
    /\ tasks = [t \in TaskIds |-> NoTask]
    /\ exitCode = -1 /\ exitAt = "none"
    /\ fatals = {} /\ dumps = 0 /\ dumpsAbort = 0
    /\ children = <<>> /\ pidfile = "none"
    /\ wg = [l \in Listeners |-> 0]
    /\ stop = [l \in Listeners |-> FALSE]
    /\ backlog = [l \in Listeners |-> <<>>]
    /\ acc = [a \in Listeners |-> NoCall]
    /\ conns = [c \in ConnIds |-> NoConn]
    /\ waitPc = [l \in Listeners |-> "idle"]
    /\ closes = [l \in Listeners |-> 0]
    /\ out = <<>>
    /\ kid = NoKid
    /\ setRes = NoSet

\* The process after flag.Parse(), at the top of main.
Init ==
    /\ InitCommon
    /\ lf = [i \in Listeners |-> DefaultListenFlag(i)]
    /\ lopen = [l \in Listeners |-> FALSE]
    /\ forkF \in {[fork |-> b, pidfile |-> "echo.pid"] : b \in BOOLEAN}
    /\ LogLevel \in LogLevels
    /\ mainPc = "Fork"

\* Start-up and supervision: main (Fork, Listen, Run), the signals, and the
\* Shutdown/Restart calls made by Run and by the application.
Next ==
    \/ \E ok \in BOOLEAN : ForkStart(ok)
    \/ ForkClaim
    \/ \E ok \in BOOLEAN : ForkSpawn(ok)
    \/ \E l \in Listeners : MainListen(l)
    \/ MainRun
    \/ \E sig \in Signals : SendSignal(sig)
    \/ RunRecv
    \/ RunSelect
    \/ RunPutBack
    \/ RunSwitch
    \/ \E kind \in {"Shutdown", "Restart"} : AppCall(kind)
    \/ \E t \in TaskIds : TaskClaim(t)
    \/ \E t \in TaskIds : TaskCopyFlags(t)
    \/ \E t \in TaskIds : RestartStop(t)
    \/ \E t \in TaskIds, ok \in BOOLEAN : RestartNoop(t, ok)
    \/ \E t \in TaskIds, ok \in BOOLEAN : RestartSpawn(t, ok)
    \/ \E t \in TaskIds : ShutdownClose(t)
    \/ \E t \in TaskIds : ShutdownDrain(t)
    \/ \E t \in TaskIds : DrainWait(t)
    \/ \E t \in TaskIds : DrainDone(t)
    \/ \E t \in TaskIds : TimerFire(t)
    \/ \E t \in TaskIds : SelectDone(t)
    \/ \E t \in TaskIds : SelectTimeout(t)

Spec == Init /\ [][Next]_vars

\* The process at the top of main, in flag.Parse.
InitFlags ==
    /\ InitCommon
    /\ lf = [i \in Listeners |-> DefaultListenFlag(i)]
    /\ lopen = [l \in Listeners |-> FALSE]
    /\ forkF \in {[fork |-> b, pidfile |-> "echo.pid"] : b \in BOOLEAN}
    /\ LogLevel = Info
    /\ mainPc = "Parse"

\* The flags from the command line on: flag.Parse with its Set calls, Fork,
\* Listen, and calls of copyFlags on the flags as they are at the time.
NextFlags ==
    \/ \E i \in Listeners, s \in SetInputs : SetCall(i, s)
    \/ ParseDone
    \/ \E ok \in BOOLEAN : ForkStart(ok)
    \/ ForkClaim
    \/ \E ok \in BOOLEAN : ForkSpawn(ok)
    \/ \E l \in Listeners : MainListen(l)
    \/ \E l \in Listeners : MainListenFd(l)
    \/ CopyFlagsCall

SpecFlags == InitFlags /\ [][NextFlags]_vars

\* The values Set accepts, and the states it leaves listener flag i in.
AcceptedInputs == {s \in SetInputs : Set(DefaultListenFlag(1), s).err = "nil"}
ParsedFlags(i) == {Set(DefaultListenFlag(i), s).f : s \in AcceptedInputs}

\* A process after flag.Parse, each listener flag as some accepted value
\* left it; the application calls Listen on its flags in any order.
InitWalk ==
    /\ InitCommon
    /\ lf \in {g \in [Listeners -> UNION {ParsedFlags(i) : i \in Listeners}] :
                 \A i \in Listeners : g[i] \in ParsedFlags(i)}
    /\ lopen = [l \in Listeners |-> FALSE]
    /\ forkF \in {[fork |-> b, pidfile |-> "echo.pid"] : b \in BOOLEAN}
    /\ LogLevel = Info
    /\ mainPc = "api"

\* Listen is called on a listener flag that is not bound, and succeeds (in
\* mode "fd" the process was handed a listening socket at the descriptor).
ListenCall(l) ==
    /\ Running
    /\ mainPc = "api"
    /\ lf[l].listener = 0
    /\ Listen(l)
    /\ UNCHANGED <<repVars, registry, forkF, LogLevel, lifeVars, exitVars, wg, stop,
                   closes, backlog, acc, conns, waitPc>>

\* The walk of copyFlags over flags in every state.
NextWalk ==
    \/ \E l \in Listeners : ListenCall(l)
    \/ CopyFlagsCall

SpecWalk == InitWalk /\ [][NextWalk]_vars

\* The process after flag.Parse(), at the top of main, at the default log
\* level.
InitChild ==
    /\ InitCommon
    /\ lf = [i \in Listeners |-> DefaultListenFlag(i)]
    /\ lopen = [l \in Listeners |-> FALSE]
    /\ forkF \in {[fork |-> b, pidfile |-> "echo.pid"] : b \in BOOLEAN}
    /\ LogLevel = Info
    /\ mainPc = "Fork"

\* From a process to the process it starts: Fork, Listen, a Restart called
\* by the application, and the process started from the first spawned
\* command (its flag.Parse, Fork and Listen).
NextChild ==
    \/ \E ok \in BOOLEAN : ForkStart(ok)
    \/ ForkClaim
    \/ \E ok \in BOOLEAN : ForkSpawn(ok)
    \/ \E l \in Listeners : MainListen(l)
    \/ AppCall("Restart")
    \/ \E t \in TaskIds : TaskClaim(t)
    \/ \E t \in TaskIds : TaskCopyFlags(t)
    \/ \E t \in TaskIds : RestartStop(t)
    \/ \E t \in TaskIds, ok \in BOOLEAN : RestartNoop(t, ok)
    \/ \E t \in TaskIds, ok \in BOOLEAN : RestartSpawn(t, ok)
    \/ \E t \in TaskIds : DrainWait(t)
    \/ \E t \in TaskIds : DrainDone(t)
    \/ \E t \in TaskIds : TimerFire(t)
    \/ \E t \in TaskIds : SelectDone(t)
    \/ \E t \in TaskIds : SelectTimeout(t)
    \/ KidParse
    \/ \E ok \in BOOLEAN : KidFork(ok)
    \/ \E i \in Listeners, ok \in BOOLEAN : KidListen(i, ok)

SpecChild == InitChild /\ [][NextChild]_vars

\* The echo server once main has reached Run (no fork requested, pidfile
\* written, every listener flag listened on).
InitServe ==
    /\ InitCommon
    /\ lf = [i \in Listeners |-> [DefaultListenFlag(i) EXCEPT !.listener = i]]
    /\ lopen = [l \in Listeners |-> TRUE]
    /\ forkF = [fork |-> FALSE, pidfile |-> "echo.pid"]
    /\ LogLevel \in LogLevels
    /\ mainPc = "Run"

\* Serving: the accept loops, the clients and the handlers, and a Shutdown
\* or Restart called by an application goroutine.
NextServe ==
    \/ \E kind \in {"Shutdown", "Restart"} : AppCall(kind)
    \/ \E t \in TaskIds : TaskClaim(t)
    \/ \E t \in TaskIds : TaskCopyFlags(t)
    \/ \E t \in TaskIds : RestartStop(t)
    \/ \E t \in TaskIds, ok \in BOOLEAN : RestartNoop(t, ok)
    \/ \E t \in TaskIds, ok \in BOOLEAN : RestartSpawn(t, ok)
    \/ \E t \in TaskIds : ShutdownClose(t)
    \/ \E t \in TaskIds : ShutdownDrain(t)
    \/ \E t \in TaskIds : DrainWait(t)
    \/ \E t \in TaskIds : DrainDone(t)
    \/ \E t \in TaskIds : TimerFire(t)
    \/ \E t \in TaskIds : SelectDone(t)
    \/ \E t \in TaskIds : SelectTimeout(t)
    \/ \E l \in Listeners : LoopAccept(l)
    \/ \E a \in Listeners : AcceptSelect(a)
    \/ \E a \in Listeners : AcceptUnderConn(a)
    \/ \E a \in Listeners : AcceptUnderClosed(a)
    \/ \E l \in Listeners : LoopAcceptErr(l)
    \/ \E c \in ConnIds : HandlerClose(c)
    \/ \E l \in Listeners : ClientConnect(l)

SpecServe == InitServe /\ [][NextServe]_vars

\* The Go scheduler runs every runnable goroutine: each step of the task,
\* drain and accept-loop goroutines that stays enabled is eventually taken.
\* Nothing is assumed of the clients, the timer or accept errors.
FairServe ==
    /\ WF_vars(\E t \in TaskIds : TaskClaim(t))
    /\ WF_vars(\E t \in TaskIds : TaskCopyFlags(t))
    /\ WF_vars(\E t \in TaskIds : RestartStop(t))
    /\ WF_vars(\E t \in TaskIds, ok \in BOOLEAN : RestartNoop(t, ok))
    /\ WF_vars(\E t \in TaskIds, ok \in BOOLEAN : RestartSpawn(t, ok))
    /\ WF_vars(\E t \in TaskIds : ShutdownClose(t))
    /\ WF_vars(\E t \in TaskIds : ShutdownDrain(t))
    /\ WF_vars(\E t \in TaskIds : DrainWait(t))
    /\ WF_vars(\E t \in TaskIds : DrainDone(t))
    /\ WF_vars(\E t \in TaskIds : SelectDone(t))
    /\ WF_vars(\E t \in TaskIds : SelectTimeout(t))
    /\ \A l \in Listeners :
          /\ WF_vars(LoopAccept(l))
          /\ WF_vars(AcceptSelect(l))
          /\ WF_vars(AcceptUnderConn(l))
          /\ WF_vars(AcceptUnderClosed(l))

SpecServeFair == InitServe /\ [][NextServe]_vars /\ FairServe

\* One listener (the first flag's, after Listen) in the hands of an
\* application whose goroutines call its methods freely.
InitListener ==
    /\ InitCommon
    /\ lf = [i \in Listeners |->
                [DefaultListenFlag(i) EXCEPT !.listener = IF i = 1 THEN 1 ELSE 0]]
    /\ lopen = [l \in Listeners |-> l = 1]
    /\ forkF = [fork |-> FALSE, pidfile |-> "echo.pid"]
    /\ LogLevel = Info
    /\ mainPc = "api"

NextListener ==
    \/ \E a \in Listeners, l \in Listeners : AcceptAdd(a, l)
    \/ \E a \in Listeners : AcceptSelect(a)
    \/ \E a \in Listeners : AcceptUnderConn(a)
    \/ \E a \in Listeners : AcceptUnderClosed(a)
    \/ \E a \in Listeners : AcceptUnderErr(a)
    \/ \E c \in ConnIds, uerr \in {"nil", "error"} : ConnClose(c, uerr)
    \/ \E l \in Listeners : ClientConnect(l)
    \/ \E l \in Listeners : StopCall(l)
    \/ \E l \in Listeners : CloseCall(l)
    \/ \E l \in Listeners : WaitCall(l)
    \/ \E l \in Listeners : WaitReturn(l)

SpecListener == InitListener /\ [][NextListener]_vars

\* ================================================================ claims
Accepted(l) == {c \in ConnIds : conns[c].l = l}
AllClosed(l) == \A c \in Accepted(l) : conns[c].once
InProgress(l) == {a \in Listeners : acc[a].l = l /\ acc[a].pc \in {"added", "blocked"}}

\* C1 as stated: the counter is never negative, and Wait() can return exactly
\* when every connection returned by Accept has been closed at least once.
C1_WaitIffAllClosed ==
    \A l \in Listeners :
        /\ wg[l] >= 0
        /\ WaitCanReturn(l) <=> AllClosed(l)

\* C1 amended: the counter is never negative, and Wait() can return exactly
\* when every connection returned by Accept has been closed at least once
\* and no Accept call on the listener is in progress.
C1_CounterSound ==
    \A l \in Listeners :
        /\ wg[l] >= 0
        /\ WaitCanReturn(l) <=> (AllClosed(l) /\ InProgress(l) = {})

\* C1 witness: Wait has returned on a listener one of whose connections was
\* closed twice.
C1_Witness ==
    \E l \in Listeners :
        /\ waitPc[l] = "returned"
        /\ wg[l] = 0
        /\ \E c \in Accepted(l) : conns[c].err = "double close"

\* C2: an Accept call that begins after the stop signal was fired never
\* enters the underlying accept, returns ErrStopped and no connection, and
\* its return takes back the one increment the call made.
C2_AcceptAfterStop ==
    /\ [](\A a \in Listeners :
            acc[a].began =>
                /\ acc[a].pc \in {"added", "idle"}
                /\ acc[a].pc = "idle" => acc[a].ret = "ErrStopped")
    /\ [][\A a \in Listeners :
            (acc[a].began /\ acc[a].pc = "added" /\ acc'[a].pc = "idle") =>
                /\ wg'[acc[a].l] = wg[acc[a].l] - 1
                /\ conns' = conns]_vars

\* C2 witness: a call begun after Stop (the socket still open) has returned
\* ErrStopped.
C2_Witness ==
    \E a \in Listeners :
        /\ acc[a].began /\ acc[a].pc = "idle" /\ acc[a].ret = "ErrStopped"
        /\ stop[acc[a].l] /\ lopen[acc[a].l]

\* Connections accepted from the listeners a task collected, still open.
OpenConns(t) ==
    {c \in ConnIds : /\ \E k \in 1..Len(tasks[t].ports) : tasks[t].ports[k] = conns[c].l
                     /\ ~conns[c].once}

\* An Accept call blocked in the underlying accept on a stopped listener is
\* woken by the noop connection at the head of the accept queue.
WokenByNoop(a) ==
    /\ acc[a].pc = "blocked" /\ stop[acc[a].l]
    /\ backlog[acc[a].l] # <<>> /\ Head(backlog[acc[a].l]) = "noop"
    /\ acc'[a].pc = "idle"
    /\ backlog'[acc[a].l] = Tail(backlog[acc[a].l])

Calls == {t \in TaskIds : tasks[t].kind # "none"}
AbortMsg == "Aborted by signal during shutdown"

\* Shutdown and Restart were both called; u is past the token claim and t
\* still waits at it.
Rivals(t, u) ==
    /\ {tasks[t].kind, tasks[u].kind} = {"Shutdown", "Restart"}
    /\ u \in PastClaim
    /\ tasks[t].pc = "claim"

\* C4 as stated: of a Shutdown and a Restart called in one process, the one
\* that finds the token taken terminates the process fatally, so the other
\* never completes its drain and exits 0 with the rival still at the claim
\* (at a log level at which the Fatal logger exits).
C4_LoserIsFatal ==
    \A t, u \in TaskIds :
        (PrintfExits(Fatal) /\ Rivals(t, u) /\ tasks[u].sel = "done") =>
            exitCode # 0

\* C4 amended: of a Shutdown and a Restart called in one process, at most
\* one proceeds past the token claim; the other stays blocked at its claim
\* (the token is gone and is never put back) and runs no statement of its
\* body, so it is not what ends the process.
C4_LoserBlocks ==
    /\ [](Cardinality(PastClaim) <= 1)
    /\ [](PastClaim # {} => stopOnce = 0 /\ mainPc # "Run:putback")
    /\ [][\A t \in TaskIds :
            (tasks[t].pc = "claim" /\ PastClaim # {}) =>
                tasks'[t] = tasks[t]]_vars

\* C4 witness: the process is running, one of the two calls is past the
\* claim and the other waits at it.
C4_Witness ==
    /\ Running /\ PrintfExits(Fatal)
    /\ \E t, u \in TaskIds : Rivals(t, u)

\* C5: at most one of the Shutdown, Restart and Fork bodies is ever past its
\* token claim, and the one token is either in the channel, in Run's hands
\* between its receive and its send, or consumed by that one body.
C5_TokenOnce ==
    LET fork == IF ForkPastClaim THEN 1 ELSE 0
        run  == IF mainPc = "Run:putback" THEN 1 ELSE 0
    IN /\ Cardinality(PastClaim) + fork <= 1
       /\ stopOnce + run + Cardinality(PastClaim) + fork = 1
       /\ stopOnce \in {0, 1}

\* C5 witness: one body has run to the end of the process past its claim
\* while another call was still waiting for the token.
C5_Witness ==
    /\ ~Running
    /\ Cardinality(PastClaim) = 1
    /\ \E t \in Calls : tasks[t].pc = "claim"

\* C6 as stated: Run never starts a second Shutdown/Restart task (at a log
\* level at which the Fatal logger exits).
C6_RunStartsOneTask ==
    PrintfExits(Fatal) =>
        Cardinality({t \in TaskIds : tasks[t].by = "Run"}) <= 1

\* Run's select took the default branch for the signal it is handling and
\* the Fatal logger ended the process there.
AbortedBy(sig) ==
    /\ runAbort /\ runSig = sig
    /\ AbortMsg \in fatals
    /\ exitCode = 1 /\ exitAt = "Fatal"

\* C7 as stated: in the Claimed state a stack-dump signal does not terminate
\* the process.
C7_DumpServiced == ~AbortedBy("SIGUSR1")

\* C7 amended: in the Claimed state every signal Run dequeues, a stack-dump
\* signal included, takes the default branch of the select, which directs
\* the abort message to the Fatal logger before the switch is reached; the
\* stack trace is logged after it only if the Fatal logger did not exit.
C7_DumpAborts ==
    /\ [][(mainPc = "Run:select" /\ PastClaim # {} /\ mainPc' # mainPc) =>
            /\ runAbort' /\ AbortMsg \in fatals'
            /\ (PrintfExits(Fatal) => exitCode' = 1)]_vars
    /\ [](runAbort => AbortMsg \in fatals /\ (PrintfExits(Fatal) => exitCode = 1))
    /\ [](dumpsAbort > 0 => ~PrintfExits(Fatal))

\* C7 witness: a stack-dump signal handled in the Claimed state ended the
\* process.
C7_Witness ==
    /\ AbortedBy("SIGUSR1")
    /\ PastClaim # {}
    /\ dumps = 0

\* C8 as stated: when the timer of Shutdown fires first, with a connection
\* still open, the process terminates with a nonzero code and does not
\* exit 0.
C8_TimeoutIsFatal ==
    \A t \in TaskIds :
        (tasks[t].kind = "Shutdown" /\ tasks[t].sel = "timeout"
            /\ OpenConns(t) # {}) => exitCode = 1

\* Restart is in its select, the timer not yet delivered.
Draining(t) ==
    /\ tasks[t].kind = "Restart" /\ tasks[t].pc = "select"
    /\ tasks[t].timer = "armed"
    /\ Running

\* A client's connection accepted from a listener the task collected has
\* been closed, and no connection of those listeners is open.
ConnClosed(t) ==
    /\ OpenConns(t) = {}
    /\ \E c \in ConnIds :
         /\ conns[c].kind = "client" /\ conns[c].once
         /\ \E k \in 1..Len(tasks[t].ports) : tasks[t].ports[k] = conns[c].l

\* Accept calls sitting in the underlying accept of a collected listener.
BlockedLoops(t) ==
    {a \in Listeners : /\ acc[a].pc = "blocked"
                       /\ \E k \in 1..Len(tasks[t].ports) :
                            tasks[t].ports[k] = acc[a].l}

TimerFired == \E t \in TaskIds : tasks[t].timer = "fired"

C10_NoForkToken ==
    \A i \in 1..Len(children) : \A k \in 1..Len(children[i].args) :
        children[i].args[k] \notin {"--fork=true", "--fork=false"}

\* C15: for every connection returned by Accept, the first Close takes the
\* owning listener's counter down by exactly one and returns the result of
\* the underlying Close, whatever that result is; every later Close on the
\* same wrapper returns the "double close" error and leaves every counter
\* as it was.
C15_DoubleClose ==
    [][\A c \in ConnIds :
          (conns[c].l # 0 /\ conns'[c] # conns[c]) =>
              IF conns[c].once
              THEN /\ wg' = wg
                   /\ conns'[c] = [conns[c] EXCEPT !.err = "double close"]
              ELSE /\ wg' = [wg EXCEPT ![conns[c].l] = @ - 1]
                   /\ conns'[c].once
                   /\ conns'[c].err \in {"nil", "error"}]_vars

\* C15 witness: a connection whose Close was called twice, the second call
\* returning the error, while another connection of the same listener is
\* still open and is the one thing the counter counts.
C15_Witness ==
    \E c, d \in ConnIds :
        /\ conns[c].l # 0 /\ conns[d].l = conns[c].l
        /\ conns[c].err = "double close"
        /\ ~conns[d].once
        /\ InProgress(conns[c].l) = {}
        /\ wg[conns[c].l] = 1

\* Connections returned by Accept on listener l and not closed yet.
Live(l) == {c \in Accepted(l) : ~conns[c].once}

\* C19: Accept adds one to the counter as its first step, before the stop
\* flag and the underlying accept; a return without a connection takes the
\* one back and a return with a connection keeps it. In every reachable
\* state the counter is the number of returned and not yet closed
\* connections plus the number of Accept calls in progress, and Wait returns
\* only when there is neither.
C19_SpeculativeIncrement ==
    /\ [](\A l \in Listeners :
            wg[l] = Cardinality(Live(l)) + Cardinality(InProgress(l)))
    /\ [][\A a \in Listeners :
            /\ (acc[a].pc = "idle" /\ acc'[a].pc # "idle") =>
                  /\ acc'[a].pc = "added"
                  /\ wg' = [wg EXCEPT ![acc'[a].l] = @ + 1]
            /\ (acc[a].pc # "idle" /\ acc'[a].pc = "idle") =>
                  IF acc'[a].ret = "conn"
                  THEN wg' = wg /\ Live(acc[a].l)' # Live(acc[a].l)
                  ELSE wg' = [wg EXCEPT ![acc[a].l] = @ - 1] /\ conns' = conns]_vars
    /\ [][\A l \in Listeners :
            (waitPc[l] = "waiting" /\ waitPc'[l] = "returned") =>
                (InProgress(l) = {} /\ Live(l) = {})]_vars

\* C19 witness: Wait is pending on a listener whose counter is two, for one
\* open connection and one Accept call in the underlying accept, after an
\* earlier Accept call returned an error and no connection.
C19_Witness ==
    \E l \in Listeners :
        /\ waitPc[l] = "waiting"
        /\ wg[l] = 2
        /\ Cardinality(Live(l)) = 1
        /\ \E a, b \in Listeners :
              /\ acc[a].l = l /\ acc[a].pc = "blocked"
              /\ acc[b].l = l /\ acc[b].pc = "idle" /\ acc[b].ret = "err"

\* C16: Close on a listener that was closed before fails: the call panics
\* at close(w.stop), which ends the process with exit code 2, and it never
\* reaches the underlying listener, whose Close is called at most once.
C16_SecondCloseFails ==
    /\ [](\A l \in Listeners : closes[l] <= 1 /\ (closes[l] = 1 => ~lopen[l]))
    /\ [][\A l \in Listeners :
            (closes[l] = 1 /\ CloseCall(l)) =>
                /\ exitCode' = 2 /\ exitAt' = "panic"
                /\ UNCHANGED <<closes, lopen, stop>>]_vars

\* C16 witness: the process was ended by the panic of a call on a listener
\* that had been closed, its underlying listener closed once.
C16_Witness ==
    \E l \in Listeners :
        /\ closes[l] = 1 /\ ~lopen[l] /\ stop[l]
        /\ exitCode = 2 /\ exitAt = "panic"

\* C18 as stated: once a message was directed to the Fatal logger the
\* process is terminated with a nonzero exit code, at every log level.
C18_FatalTerminates ==
    fatals # {} => (~Running /\ exitCode # 0)

\* The listeners a task collected, and those whose file it has duplicated
\* into the inheritable files of its command.
Collected(t) == {tasks[t].ports[k] : k \in 1..Len(tasks[t].ports)}
Duplicated(t) == {tasks[t].cmd.extra[k] : k \in 1..Len(tasks[t].cmd.extra)}
\* The task is past its stop loop: the child is spawned next or was spawned,
\* or the drain goroutine and its Wait calls are started next or were.
PastStopLoop(t) == tasks[t].pc \in {"spawn", "drain", "select", "exit"}

\* C20 as stated: in Shutdown and Restart the stop signal of a collected
\* listener is fired before its file is duplicated into the inheritable set,
\* before the child is spawned and before the drain task waits on it.
C20_StopBeforeInherit ==
    \A t \in TaskIds :
        /\ \A l \in Duplicated(t) : stop[l]
        /\ PastStopLoop(t) => \A l \in Collected(t) : stop[l]

\* C20 amended: the file of every collected listener is duplicated into the
\* inheritable set by copyFlags while its stop signal is not fired yet; the
\* stop signals of all collected listeners are fired after that, and before
\* the child is spawned and before the drain task calls Wait on any of them.
C20_StopBeforeSpawnAndDrain ==
    /\ [](\A t \in TaskIds :
            PastStopLoop(t) => \A l \in Collected(t) : stop[l])
    /\ [][\A t \in TaskIds :
            /\ tasks'[t].cmd # tasks[t].cmd =>
                  /\ Duplicated(t)' = Collected(t)'
                  /\ \A l \in Collected(t)' : ~stop[l] /\ ~stop'[l]
            /\ (tasks[t].kind = "Restart" /\ children' # children) =>
                  \A l \in Duplicated(t) : stop[l]
            /\ tasks'[t].j > tasks[t].j =>
                  \A l \in Collected(t) : stop[l]]_vars

\* C20 witness: a Restart whose command carries the duplicated files has
\* stopped every collected listener, spawned its child, and its drain
\* goroutine has returned from Wait on a collected listener.
C20_Witness ==
    \E t \in TaskIds :
        /\ tasks[t].kind = "Restart" /\ tasks[t].pc = "select"
        /\ children # <<>> /\ Duplicated(t) # {}
        /\ tasks[t].j > 1
        /\ \A l \in Collected(t) : stop[l]

\* C13 as stated: a process whose fork flag is set ends in Fork with the
\* token claimed, exactly one child spawned, exit code 0 and no pidfile
\* written; a process whose fork flag is not set comes back from Fork with
\* nothing spawned and the pidfile written.
C13_ForkOnlyInChild ==
    /\ mainPc = "exit" =>
          /\ stopOnce = 0 /\ pidfile = "none"
          /\ Len(children) = 1 /\ exitCode = 0
    /\ (mainPc = "Listen" /\ PastClaim = {}) =>
          /\ ~forkF.fork /\ children = <<>>
          /\ pidfile = "written"

\* C13 amended: a process whose fork flag is set never comes back from Fork:
\* it claims the token, clears the flag, writes no pidfile and either spawns
\* one child and exits with code 0, or fails to start the child, directs
\* "Exec failed" to the Fatal logger and exits with no child (code 1, or
\* code 0 when the log level drops the Fatal message). A process whose fork
\* flag is not set spawns nothing and keeps the token; it writes the pidfile
\* unless the file cannot be created, which is logged, and returns.
C13_ForkBranches ==
    /\ mainPc = "exit" =>
          /\ stopOnce = 0 /\ pidfile = "none" /\ ~forkF.fork
          /\ \/ Len(children) = 1 /\ exitCode = 0 /\ fatals = {}
             \/ /\ children = <<>> /\ fatals = {"Exec failed"}
                /\ exitCode = IF PrintfExits(Fatal) THEN 1 ELSE 0
    /\ mainPc \in {"ForkClaim", "ForkSpawn"} =>
          /\ forkF.fork /\ pidfile = "none"
          /\ PastClaim = {} => children = <<>>
    /\ (mainPc = "Listen" /\ PastClaim = {}) =>
          /\ ~forkF.fork /\ children = <<>> /\ stopOnce = 1
          /\ pidfile \in {"written", "failed"}

\* C13 witness: the parent has claimed the token, spawned one child that is
\* handed --fork=false, written no pidfile and exited with code 0.
C13_Witness ==
    /\ mainPc = "exit" /\ exitAt = "Fork" /\ exitCode = 0
    /\ stopOnce = 0 /\ pidfile = "none"
    /\ Len(children) = 1
    /\ \E k \in 1..Len(children[1].args) : children[1].args[k] = "--fork=false"

\* The text t is a decimal numeral of the integer n, with an optional sign.
Denotes(t, n) == t = ToString(n) \/ (n >= 0 /\ t = "+" \o ToString(n))
\* The last call of Set was accepted (it returned nil).
SetAccepted == setRes.err = "nil"
\* The flag the last call of Set was made on, but for its listener.
SetFlag == [lf[setRes.i] EXCEPT !.listener = 0]

\* C17 as stated: Set rejects the empty text; a text beginning with '&' is
\* accepted exactly when the rest is a non-negative integer N, and the flag
\* is then in mode "fd" with descriptor N; any other text is accepted
\* exactly when it resolves as an address, and the flag is then in mode
\* "tcp" with that address.
C17_SetNonNegativeFd ==
    setRes.i # 0 =>
        /\ setRes.s = "" => ~SetAccepted
        /\ IsFdText(setRes.s) =>
              /\ SetAccepted <=>
                    \E n \in AtoiRange : n >= 0 /\ Denotes(FdTextOf(setRes.s), n)
              /\ SetAccepted =>
                    /\ SetFlag.mode = "fd" /\ SetFlag.fd >= 0
                    /\ Denotes(FdTextOf(setRes.s), SetFlag.fd)
        /\ (setRes.s # "" /\ ~IsFdText(setRes.s)) =>
              /\ SetAccepted <=> setRes.s \in AddrTexts
              /\ SetAccepted =>
                    SetFlag.mode = "tcp" /\ ListenString(SetFlag) = setRes.s

Handed(files) == {files[k] : k \in 1..Len(files)}
\* The command line has the token --<name of l>=&n.
HasFdToken(cmd, l, n) ==
    \E k \in 1..Len(cmd.args) :
        cmd.args[k] = "--" \o NameOf(l) \o "=&" \o ToString(n)

\* C11: in every spawned command, the number N of the token --name=&N of a
\* bound listener flag is 3 plus the index of the listener's file among the
\* inheritable files, the descriptor at which the started process sees that
\* file; the started process, after parsing &N, has the flag in mode "fd"
\* with that descriptor, and its Listen binds the flag to a listener on the
\* parent's socket and never fails on such a flag.
C11_RoundTrip ==
    /\ \A c \in 1..Len(children) : \A l \in Handed(children[c].extra) :
          /\ lf[l].listener = l
          /\ \E k \in 1..Len(children[c].extra) :
                /\ children[c].extra[k] = l
                /\ HasFdToken(children[c], l, FirstExtraFd + k - 1)
                /\ FdSocket(children[c].extra, FirstExtraFd + k - 1) = l
    /\ kid.pc # "none" =>
          /\ kid.err # "flag"
          /\ \A l \in Handed(kid.files) :
                /\ kid.lf[l].mode = "fd"
                /\ FdSocket(kid.files, kid.lf[l].fd) = l
                /\ kid.lf[l].listener \in {0, lf[l].listener}
                /\ (kid.err = "listen" /\ kid.lf[l].listener = 0) =>
                      \E i \in Listeners :
                          i < l /\ kid.lf[i].listener = 0 /\ kid.lf[i].mode = "tcp"

\* C11 witness: the process started by a Restart was handed both listeners
\* as &3 and &4 and has bound both flags to the parent's sockets.
C11_Witness ==
    /\ kid.pc = "Listen" /\ kid.err = "none"
    /\ Handed(kid.files) = Listeners
    /\ \A l \in Listeners :
          /\ kid.lf[l].fd = FirstExtraFd + l - 1
          /\ kid.lf[l].listener = l /\ lf[l].listener = l

\* C14: every command spawned by Fork carries --fork=false; the process
\* started from it has its fork flag off, takes the pidfile branch of Fork
\* and spawns nothing.
C14_ChildDoesNotFork ==
    (exitAt = "Fork" /\ children # <<>>) =>
          /\ Len(children) = 1
          /\ \A k \in 1..Len(children[1].args) : children[1].args[k] # "--fork=true"
          /\ \E k \in 1..Len(children[1].args) : children[1].args[k] = "--fork=false"
          /\ ~kid.fork /\ kid.spawned = 0
          /\ kid.pc \in {"none", "Fork", "Listen", "exit"}
          /\ kid.pc = "exit" => kid.err \in {"listen", "flag"}
          /\ kid.pc = "Listen" => kid.pidfile \in {"written", "failed"}

\* C14 witness: the process spawned by Fork, whose parent has exited with
\* code 0, has written its pidfile and listens, and has spawned nothing.
C14_Witness ==
    /\ exitAt = "Fork" /\ exitCode = 0 /\ Len(children) = 1
    /\ kid.pc = "Listen" /\ kid.pidfile = "written" /\ kid.spawned = 0
    /\ \A l \in Listeners : kid.lf[l].listener # 0

\* The noop connections of listener l: queued on its socket or accepted.
Noops(l) ==
    {k \in 1..Len(backlog[l]) : backlog[l][k] = "noop"}
\* A noop connection is queued on listener l in this step.
NoopSent(l) ==
    /\ Len(backlog'[l]) = Len(backlog[l]) + 1
    /\ backlog'[l][Len(backlog'[l])] = "noop"

\* C21: in Restart, Stop on a collected listener comes before the noop
\* connection made to it: a noop connection is only ever made to a listener
\* whose stop signal is fired, and it is made to the listener the loop has
\* just stopped.
C21_StopBeforeNoop ==
    /\ [](\A l \in Listeners :
            (Noops(l) # {} \/ \E c \in ConnIds : conns[c].l = l /\ conns[c].kind = "noop")
                => stop[l])
    /\ [][\A l \in Listeners :
            NoopSent(l) =>
                /\ stop[l]
                /\ \E t \in TaskIds :
                      /\ tasks[t].kind = "Restart" /\ tasks[t].pc = "noop"
                      /\ tasks[t].ports[tasks[t].i] = l]_vars
    /\ [](\A t \in TaskIds :
            (tasks[t].kind = "Restart" /\ tasks[t].pc = "noop") =>
                \A k \in 1..tasks[t].i : stop[tasks[t].ports[k]])

\* C21 witness: Restart has stopped the first collected listener and queued
\* a noop connection on it, and has not stopped the second one yet.
C21_Witness ==
    \E t \in TaskIds :
        /\ tasks[t].kind = "Restart" /\ tasks[t].pc = "stop" /\ tasks[t].i = 2
        /\ stop[tasks[t].ports[1]] /\ Noops(tasks[t].ports[1]) # {}
        /\ ~stop[tasks[t].ports[2]] /\ Noops(tasks[t].ports[2]) = {}

\* The drain goroutine of task t is started (its Wait calls are made from
\* here on), and the call of spawn in task t has been made.
DrainStarted(t) == tasks[t].pc \in {"select", "exit"}
SpawnCalled(t) == children # <<>> \/ "Exec failed" \in fatals

\* C22: Restart calls spawn after Stop and noop of every collected listener
\* and before it starts the drain goroutine: the step that starts the child
\* finds every collected listener stopped and the loop over them finished,
\* no Wait of the drain is made before that step, and wherever the drain is
\* started and the Fatal logger exits, the child is running.
C22_SpawnBeforeDrain ==
    /\ [](\A t \in TaskIds :
            (tasks[t].kind = "Restart" /\ DrainStarted(t)) =>
                /\ SpawnCalled(t)
                /\ (Running /\ PrintfExits(Fatal)) => Len(children) = 1)
    /\ [](\A t \in TaskIds :
            (tasks[t].kind = "Restart" /\ ~DrainStarted(t)) =>
                /\ t \in PastClaim => children = <<>>
                /\ tasks[t].j = 0 /\ ~tasks[t].done)
    /\ [][\A t \in TaskIds :
            (tasks[t].kind = "Restart" /\ t \in PastClaim /\ children' # children) =>
                /\ tasks[t].pc = "spawn" /\ tasks'[t].pc = "select"
                /\ tasks[t].i = Len(tasks[t].ports) + 1
                /\ \A l \in Collected(t) : stop[l]
                /\ tasks'[t].j = 1]_vars

\* C22 witness: the child of a Restart is running, both collected listeners
\* are stopped, and the drain goroutine has not returned from a Wait yet.
C22_Witness ==
    \E t \in TaskIds :
        /\ tasks[t].kind = "Restart" /\ tasks[t].pc = "select"
        /\ Len(children) = 1
        /\ tasks[t].j = 1 /\ ~tasks[t].done
        /\ Collected(t) = Listeners
        /\ \A l \in Listeners : stop[l]
        /\ \E l \in Listeners : wg[l] > 0

\* The text a listener flag in state f stands for: &N in mode "fd", the
\* address in mode "tcp".
FlagText(f) ==
    IF f.mode = "fd" THEN "&" \o ToString(f.fd) ELSE ListenString(f)
\* The result r of copyFlags has the token --<name of flag i>=<text>.
HasToken(r, i, text) ==
    \E k \in 1..Len(r.args) : r.args[k] = "--" \o NameOf(i) \o "=" \o text

\* C24 as stated: copyFlags emits a listener flag that is not bound with its
\* textual value: the address for a flag in mode "tcp", &N for a flag in
\* mode "fd" that was parsed from &N.
C24_UnboundTextUnchanged ==
    \A c \in 1..Len(out) : \A i \in Listeners :
        out[c].lf[i].listener = 0 =>
            HasToken(out[c].res, i, FlagText(out[c].lf[i]))

\* The listener flags bound in the flag state g, and the place of flag i
\* among them in the order of the walk.
BoundFlags(g) == {i \in Listeners : g[i].listener # 0}
Rank(g, i) == Cardinality({j \in BoundFlags(g) : j <= i})
\* The positions of the tokens --name=&<slot> in a command line.
FdTokens(args) ==
    {k \in 1..Len(args) :
        \E i \in Listeners, n \in AtoiRange :
            args[k] = "--" \o NameOf(i) \o "=&" \o ToString(n)}
\* The position of the token --<name of flag i>=&n, or 0.
TokenAt(args, i, n) ==
    IF \E k \in 1..Len(args) : args[k] = "--" \o NameOf(i) \o "=&" \o ToString(n)
    THEN CHOOSE k \in 1..Len(args) :
             args[k] = "--" \o NameOf(i) \o "=&" \o ToString(n)
    ELSE 0

\* C23: in every result of copyFlags the k-th bound listener flag of the
\* walk has the token --name=&(3 + k - 1), whatever flags were walked before
\* it, its file is the k-th inheritable file and its listener the k-th of
\* the list; there are as many such tokens as files and as listeners, and
\* the tokens come in the order of the files.
C23_SlotAssignment ==
    \A c \in 1..Len(out) :
        LET g == out[c].lf
            r == out[c].res
        IN /\ Len(r.extra) = Cardinality(BoundFlags(g))
           /\ Len(r.ports) = Len(r.extra)
           /\ Cardinality(FdTokens(r.args)) = Len(r.extra)
           /\ \A i \in BoundFlags(g) :
                 /\ r.extra[Rank(g, i)] = g[i].listener
                 /\ r.ports[Rank(g, i)] = g[i].listener
                 /\ TokenAt(r.args, i, FirstExtraFd + Rank(g, i) - 1) # 0
                 /\ \A j \in BoundFlags(g) :
                       j < i => TokenAt(r.args, j, FirstExtraFd + Rank(g, j) - 1)
                                  < TokenAt(r.args, i, FirstExtraFd + Rank(g, i) - 1)

\* C23 witness: copyFlags has walked an unbound listener flag and then a
\* bound one, which got slot 3, and in a later call, both of them bound,
\* slots 3 and 4.
C23_Witness ==
    /\ Len(out) = 2
    /\ BoundFlags(out[1].lf) = {2}
    /\ TokenAt(out[1].res.args, 2, FirstExtraFd) # 0
    /\ out[1].res.extra = <<2>>
    /\ BoundFlags(out[2].lf) = {1, 2}
    /\ TokenAt(out[2].res.args, 1, FirstExtraFd) # 0
    /\ TokenAt(out[2].res.args, 2, FirstExtraFd + 1) # 0
    /\ out[2].res.ports = <<1, 2>>

\* Run is handling a signal that asks for no shutdown and no restart, and
\* its select found the token (it is at the select with the token there, or
\* past it without having taken the default branch).
HandlingHarmless ==
    /\ mainPc \in {"Run:select", "Run:putback", "Run:switch"}
    /\ sigAction(runSig) \in {"sigStackDump", "sigUnknown"}
    /\ mainPc = "Run:select" => stopOnce > 0
    /\ ~runAbort
\* Neither Shutdown nor Restart has been called.
Steady == Calls = {} /\ Running

\* C25: the steps by which Run handles a stack-dump or unknown signal with
\* the token available give the token back and change no task, no listener
\* and no exit state, spawn nothing and log nothing fatal; once Run is back
\* at its receive with no Shutdown or Restart called, the token is in the
\* channel, no listener is stopped or closed and no process was spawned; and
\* a shutdown or restart signal handled after a stack dump starts its task.
C25_DumpStaysSteady ==
    /\ [][(HandlingHarmless /\ mainPc' # mainPc) =>
            /\ UNCHANGED <<tasks, children, lisVars, exitVars, fatals, flagVars>>
            /\ mainPc = "Run:select" => mainPc' = "Run:putback"
            /\ mainPc = "Run:putback" =>
                  mainPc' = "Run:switch" /\ stopOnce' = stopOnce + 1
            /\ mainPc = "Run:switch" =>
                  /\ mainPc' = "Run" /\ stopOnce' = stopOnce
                  /\ sigAction(runSig) = "sigStackDump" => dumps' = dumps + 1]_vars
    /\ []((Steady /\ mainPc = "Run") =>
            /\ stopOnce = 1 /\ children = <<>> /\ fatals = {}
            /\ \A l \in Listeners :
                  ~stop[l] /\ closes[l] = 0 /\ (Bound(l) => lopen[l]))
    /\ [][(dumps > 0 /\ mainPc = "Run:switch" /\ mainPc' = "Run" /\ ~runAbort
            /\ sigAction(runSig) \in {"sigShutdown", "sigRestart"}) =>
            \E t \in TaskIds :
                /\ tasks[t].kind = "none"
                /\ tasks'[t].by = "Run" /\ tasks'[t].pc = "claim"
                /\ tasks'[t].kind = IF sigAction(runSig) = "sigShutdown"
                                    THEN "Shutdown" ELSE "Restart"]_vars

\* C25 witness: Run has logged a stack dump in the Steady state, and the
\* restart signal that followed started a Restart, which has claimed the
\* token and stopped a listener, no signal having aborted the process.
C25_Witness ==
    /\ dumps = 1 /\ dumpsAbort = 0 /\ fatals = {} /\ Running
    /\ \E t \in TaskIds :
          /\ tasks[t].kind = "Restart" /\ tasks[t].by = "Run"
          /\ t \in PastClaim
          /\ \E l \in Listeners : stop[l]
    /\ Cardinality(Calls) = 1

\* Restart task t has made its noop call on the collected listener l and no
\* noop connection came of it: none is queued on l and none was accepted.
NoopFailed(t, l) ==
    /\ tasks[t].kind = "Restart"
    /\ \E k \in 1..Len(tasks[t].ports) : tasks[t].ports[k] = l /\ k < tasks[t].i
    /\ Noops(l) = {}
    /\ \A c \in ConnIds : ~(conns[c].l = l /\ conns[c].kind = "noop")
\* The accept loops sitting in the underlying accept of listener l.
BlockedOn(l) == {a \in Listeners : acc[a].pc = "blocked" /\ acc[a].l = l}

\* C26 as stated: after a noop that failed on a collected listener, Restart
\* still calls spawn before its drain, nothing is directed to the Fatal
\* logger for the noop, and the accept loop of that listener has come out of
\* Accept by the time the Restart leaves its select.
C26_FailedNoopLoopExits ==
    \A t \in TaskIds : \A l \in Listeners :
        NoopFailed(t, l) =>
            /\ DrainStarted(t) => SpawnCalled(t)
            /\ "failed to ping" \notin fatals
            /\ tasks[t].sel # "none" => BlockedOn(l) = {}

\* C26 amended: a failed noop is not fatal: the step changes no listener,
\* no exit state, logs nothing fatal and Restart goes on to the next
\* listener or to spawn, which it calls before the drain. Restart closes
\* no socket, so an Accept call left in the underlying accept of a stopped
\* listener comes back only with a connection or an accept error, never
\* with "stopped"; while it sits there the listener's counter is positive,
\* the drain does not complete, and the Restart leaves its select only by
\* the timer.
C26_FailedNoopLeavesLoopBlocked ==
    /\ [][\A t \in TaskIds :
            (tasks[t].pc = "noop" /\ tasks'[t].pc # "noop" /\ backlog' = backlog) =>
                /\ UNCHANGED <<lisVars, exitVars, fatals, children>>
                /\ tasks'[t].pc \in {"stop", "spawn"}
                /\ tasks'[t].i = tasks[t].i + 1]_vars
    /\ [](\A t \in TaskIds : \A l \in Listeners :
            NoopFailed(t, l) =>
                /\ lopen[l] /\ stop[l]
                /\ DrainStarted(t) => SpawnCalled(t)
                /\ BlockedOn(l) # {} =>
                      /\ wg[l] > 0 /\ ~tasks[t].done
                      /\ tasks[t].sel \in {"none", "timeout"})
    /\ [][\A a \in Listeners :
            (acc[a].pc = "blocked" /\ acc'[a].pc = "idle" /\ lopen[acc[a].l]) =>
                /\ acc'[a].ret \in {"conn", "err"}
                /\ acc'[a].ret = "conn" =>
                      backlog'[acc[a].l] = Tail(backlog[acc[a].l])]_vars

\* C26 witness: the noop of a Restart failed on a listener whose loop sits
\* in the underlying accept; the child was spawned all the same, and the
\* Restart has ended by its timer with the loop still there.
C26_Witness ==
    \E t \in TaskIds : \E l \in Listeners :
        /\ NoopFailed(t, l) /\ BlockedOn(l) # {}
        /\ Len(children) = 1
        /\ tasks[t].sel = "timeout" /\ tasks[t].timer = "fired"
        /\ "Restart timed out" \in fatals
        /\ "Exec failed" \notin fatals

\* The collected listeners of task t whose Wait, called by the drain
\* goroutine, has returned.
Waited(t) ==
    {tasks[t].ports[k] : k \in {n \in 1..Len(tasks[t].ports) : n < tasks[t].j}}

\* C27 as stated: whenever Shutdown or Restart has made the process exit
\* with code 0, no connection accepted from a collected listener is open;
\* and once Wait has returned on a stopped collected listener, that listener
\* has no open connection and no Accept call in progress from then on.
C27_ExitZeroAllClosed ==
    \A t \in TaskIds :
        /\ (tasks[t].pc = "exit" /\ exitCode = 0
                /\ exitAt \in {"Shutdown", "Restart"}) => OpenConns(t) = {}
        /\ \A l \in Waited(t) :
              stop[l] /\ Live(l) = {} /\ BlockedOn(l) = {}

====
